---- MODULE Spec2Model ----
(***************************************************************************)
(* A model of QvmFile.py: the container reader (__init__), the comment     *)
(* file loader (load_address_info), the structural hash (hash32BitSigned), *)
(* the function analysis pass (compute_function_info), the operand         *)
(* cross-referencing of the disassembly pass (print_code_disassembly),    *)
(* the dumps of DATA and LIT and the table of hashes.                      *)
(*                                                                         *)
(* The code segment is modelled as the sequence of its instructions, each  *)
(* a record [opc, parm], next to the padded byte buffer it is decoded      *)
(* from; the byte offset `pos` of the walk is kept, since the code tests   *)
(* it (pos > 5), and advances by 1 + the opcode's immediate width exactly  *)
(* as the source does.                                                     *)
(***************************************************************************)
EXTENDS Integers, Sequences, FiniteSets, TLC

VARIABLES
    file, fpos,             \* the bytes of the image file and the read position in it
    raised,                 \* the exception __init__ ended with, or "none"
    attrs,                  \* the names of the attributes __init__ has assigned
    header,                 \* the header fields that are only used to load the segments
    codeBytes,              \* the CODE buffer, padded
    clines, lineCount,      \* load_address_info: the lines of comments.dat, the line index
    commentStore,           \* the ten comment maps, by attribute name
    codeData,               \* the instructions of the CODE segment
    instructionCount,       \* header field
    phase,                  \* "open", "header", "segments", "maps", "raised";
                            \* "comments", "loaded", "exit"; "analysis", "done",
                            \* "disassembly", "error"; "hash", "hashed"
    ins, pos,               \* compute_function_info: instruction index, byte offset
    funcStartInsNum, funcInsCount, funcHashSum, maxArgs, lastArg,
    opc, parm,              \* last decoded instruction (the look-behind of the next)
    functionSizes, functionHashes, functionRevHashes,
    functionMaxArgsCalled, functionParmNum, jumpPoints, callPoints,
    hstr, hres,             \* argument and result of hash32BitSigned
    dataSegLength, litSegLength,        \* header fields
    dataData, litData,                  \* the DATA and LIT buffers, padded
    syscalls, functions,                \* annotation store (the sidecar files)
    functionsArgLabels, functionsLocalLabels, functionsLocalRangeLabels,
    baseQ3FunctionRevHashes, symbols, symbolsRange, constants,
    count, dpos, currentFuncAddr, stackAdjust,  \* print_code_disassembly: its locals
    comments,               \* the comment printed with each instruction so far
    above,                  \* the line printed above each instruction so far
    dumps                   \* what each print call that has returned wrote last
                            \* (code, data, lit, hashes), and which have returned (ran)

anaVars == <<ins, pos, funcStartInsNum, funcInsCount, funcHashSum, maxArgs,
             lastArg, opc, parm>>
mapVars == <<functionSizes, functionHashes, functionRevHashes,
             functionMaxArgsCalled, functionParmNum, jumpPoints, callPoints>>
hashVars == <<hstr, hres>>
annVars == <<dataSegLength, litSegLength, dataData, litData, syscalls, functions, functionsArgLabels,
             functionsLocalLabels, functionsLocalRangeLabels,
             baseQ3FunctionRevHashes, symbols, symbolsRange, constants>>
storeVars == <<syscalls, functions, functionsArgLabels, functionsLocalLabels,
               functionsLocalRangeLabels, baseQ3FunctionRevHashes, symbols,
               symbolsRange, constants>>
disVars == <<count, dpos, currentFuncAddr, stackAdjust, comments, above, dumps>>
commentVars == <<clines, lineCount, commentStore>>
loadVars == <<file, fpos, raised, attrs, header, codeBytes, commentVars>>
vars == <<loadVars, codeData, instructionCount, phase, anaVars, mapVars, hashVars,
          annVars, disVars>>

-----------------------------------------------------------------------------
(* Bounds of the model *)

\* longest code segment (in instructions) of the general analysis
MaxIns == 4
\* most fragments of a code segment of the call-aggregation analysis
MaxFrag == 4
\* longest string handed to hash32BitSigned on its own
MaxStr == 3

-----------------------------------------------------------------------------
(* Python values *)

\* Python's None (parm of an opcode without immediate)
None == "None"

\* a dict: a function whose DOMAIN is the key set
EmptyDict == <<>>

\* a local name no assignment has bound yet is <<>>, a bound one <<value>>
Unbound == <<>>

DictPut(d, k, v) == [x \in (DOMAIN d) \cup {k} |-> IF x = k THEN v ELSE d[x]]

\* d[k].append(v) if k in d, else d[k] = [v]
DictAppend(d, k, v) ==
    IF k \in DOMAIN d THEN [d EXCEPT ![k] = Append(@, v)]
    ELSE DictPut(d, k, <<v>>)

\* "%d" % n, as the sequence of its character codes
RECURSIVE DecDigits(_)
DecDigits(n) ==
    IF n < 10 THEN <<48 + n>>
    ELSE Append(DecDigits(n \div 10), 48 + (n % 10))

DecStr(n) == IF n < 0 THEN <<45>> \o DecDigits(0 - n) ELSE DecDigits(n)

-----------------------------------------------------------------------------
(* The opcode table *)

\* columns of a row of the table (the source counts from 0, a TLA+ tuple from 1)
OP_NAME == 1
OP_PARM_SIZE == 2
OP_JUMP_PARM == 3
OP_STACK_CHANGE == 4

opcodes == <<
    <<"undef", 0, FALSE, 0>>,
    <<"ignore", 0, FALSE, 0>>,
    <<"break", 0, FALSE, 0>>,
    <<"enter", 4, FALSE, 0>>,
    <<"leave", 4, FALSE, 0>>,
    <<"call", 0, FALSE, -1>>,
    <<"push", 0, FALSE, 1>>,
    <<"pop", 0, FALSE, -1>>,
    <<"const", 4, FALSE, 1>>,
    <<"local", 4, FALSE, 1>>,
    <<"jump", 0, FALSE, -1>>,
    <<"eq", 4, TRUE, -2>>,
    <<"ne", 4, TRUE, -2>>,
    <<"lti", 4, TRUE, -2>>,
    <<"lei", 4, TRUE, -2>>,
    <<"gti", 4, TRUE, -2>>,
    <<"gei", 4, TRUE, -2>>,
    <<"ltu", 4, TRUE, -2>>,
    <<"leu", 4, TRUE, -2>>,
    <<"gtu", 4, TRUE, -2>>,
    <<"geu", 4, TRUE, -2>>,
    <<"eqf", 4, TRUE, -2>>,
    <<"nef", 4, TRUE, -2>>,
    <<"ltf", 4, TRUE, -2>>,
    <<"lef", 4, TRUE, -2>>,
    <<"gtf", 4, TRUE, -2>>,
    <<"gef", 4, TRUE, -2>>,
    <<"load1", 0, FALSE, 0>>,
    <<"load2", 0, FALSE, 0>>,
    <<"load4", 0, FALSE, 0>>,
    <<"store1", 0, FALSE, -2>>,
    <<"store2", 0, FALSE, -2>>,
    <<"store4", 0, FALSE, -2>>,
    <<"arg", 1, FALSE, -1>>,
    <<"block_copy", 4, FALSE, -2>>,
    <<"sex8", 0, FALSE, 0>>,
    <<"sex16", 0, FALSE, 0>>,
    <<"negi", 0, FALSE, 0>>,
    <<"add", 0, FALSE, -1>>,
    <<"sub", 0, FALSE, -1>>,
    <<"divi", 0, FALSE, -1>>,
    <<"divu", 0, FALSE, -1>>,
    <<"modi", 0, FALSE, -1>>,
    <<"modu", 0, FALSE, -1>>,
    <<"muli", 0, FALSE, -1>>,
    <<"mulu", 0, FALSE, -1>>,
    <<"band", 0, FALSE, -1>>,
    <<"bor", 0, FALSE, -1>>,
    <<"bxor", 0, FALSE, -1>>,
    <<"bcom", 0, FALSE, 0>>,
    <<"lsh", 0, FALSE, -1>>,
    <<"rshi", 0, FALSE, -1>>,
    <<"rshu", 0, FALSE, -1>>,
    <<"negf", 0, FALSE, 0>>,
    <<"addf", 0, FALSE, -1>>,
    <<"subf", 0, FALSE, -1>>,
    <<"divf", 0, FALSE, -1>>,
    <<"mulf", 0, FALSE, -1>>,
    <<"cvif", 0, FALSE, 0>>,
    <<"cvfi", 0, FALSE, 0>>
>>

\* opcodes[opc] of the source (0-based); an IndexError when opc >= 60
KnownOpcode(o) == o + 1 \in DOMAIN opcodes
OpName(o) == opcodes[o + 1][OP_NAME]
OpParmSize(o) == opcodes[o + 1][OP_PARM_SIZE]
OpJumpParm(o) == opcodes[o + 1][OP_JUMP_PARM]

\* the opcode byte of a mnemonic (the index of its row)
OpcOf(name) == (CHOOSE i \in DOMAIN opcodes : opcodes[i][OP_NAME] = name) - 1

Ins(name, p) == [opc |-> OpcOf(name), parm |-> p]

-----------------------------------------------------------------------------
(* hash32BitSigned.  Python integers are unbounded; the model keeps every  *)
(* value within 32 bits by working on 16-bit halves, so that no            *)
(* intermediate product leaves the range of the model checker's integers.  *)

\* an unsigned 32-bit value is held as <<high half, low half>>
Half == 65536
Byte == 256

\* Python's a // b for b > 0 (rounds towards minus infinity)
FloorDiv(a, b) == (a - (a % b)) \div b

\* v & 0xffffffff : the low 32 bits of a two's complement integer
Low32(v) == <<FloorDiv(v, Half) % Half, v % Half>>

HalvesAdd(p, q) ==
    LET lo == p[2] + q[2]
    IN  <<(p[1] + q[1] + (lo \div Half)) % Half, lo % Half>>

\* (d * h) mod 2^32 for one byte d
HalvesTimesByte(d, h) ==
    LET lo == d * h[2]
    IN  <<(d * h[1] + (lo \div Half)) % Half, lo % Half>>

\* (h * 256) mod 2^32
HalvesShift8(h) == <<(h[1] * Byte + (h[2] \div Byte)) % Half, (h[2] * Byte) % Half>>

\* (a * b) & 0xffffffff for 0 <= a < 2^31, by long multiplication over the bytes of a
MulLow32(a, b) ==
    LET h == Low32(b)
        t0 == HalvesTimesByte(a % Byte, h)
        t1 == HalvesShift8(HalvesTimesByte((a \div Byte) % Byte, h))
        t2 == HalvesShift8(HalvesShift8(HalvesTimesByte((a \div Half) % Byte, h)))
        t3 == HalvesShift8(HalvesShift8(HalvesShift8(
                  HalvesTimesByte((a \div (Half * Byte)) % Byte, h))))
    IN  HalvesAdd(HalvesAdd(t0, t1), HalvesAdd(t2, t3))

\* if v > 0x7fffffff: v = -(0x100000000 - v)
Signed32(h) ==
    IF h[1] >= Half \div 2 THEN (h[1] - Half) * Half + h[2]
    ELSE h[1] * Half + h[2]

\* a wrong variant of c_mul: bit 31 of the product is dropped, not made the sign
c_mul31(a, b) ==
    LET h == MulLow32(a, b) IN Signed32(<<h[1] % (Half \div 2), h[2]>>)

\* c_mul: the low 32 bits of a * b, read as a signed integer
c_mul(a, b) == Signed32(MulLow32(a, b))

\* bitwise exclusive or of two values in 0..65535
RECURSIVE Xor16(_, _)
Xor16(x, y) ==
    IF x = 0 THEN y
    ELSE IF y = 0 THEN x
    ELSE 2 * Xor16(x \div 2, y \div 2) + (((x % 2) + (y % 2)) % 2)

\* Python's a ^ b for a, b within 32 bits: the exclusive or of the two's
\* complement bit patterns (both operands extend their sign bit, so the
\* result is again the signed reading of its low 32 bits)
PyXor(a, b) ==
    LET p == Low32(a)
        q == Low32(b)
    IN  Signed32(<<Xor16(p[1], q[1]), Xor16(p[2], q[2])>>)

\* ord(str[0]) << 7
ShiftLeft7(c) == c * 128

\* the loop body:  value = c_mul(1000003, value) ^ ord(char)
LoopBody[value \in Int, char \in Int] == PyXor(c_mul(1000003, value), char)

\* the loop  for char in str  (value[i] is the value after i characters)
HashLoop(start, str) ==
    LET value[i \in 0..Len(str)] ==
            IF i = 0 THEN start ELSE LoopBody[value[i - 1], str[i]]
    IN  value[Len(str)]

\* a string is the sequence of its character codes
hash32BitSigned(str) ==
    IF str = <<>> THEN 0
    ELSE LET value == PyXor(HashLoop(ShiftLeft7(str[1]), str), Len(str))
         IN  IF value = -1 THEN -2 ELSE value

-----------------------------------------------------------------------------
(* compute_function_info: one action per iteration of the walk, one for    *)
(* the statements after the loop.                                          *)

\* funcInsCount += 1
CountInstruction(n) == n + 1

\* funcHashSum += "%d" % opc
HashSumOpcode(sum, o) == sum \o DecStr(o)

\* const: a negative immediate joins the accumulator; local: always
HashSumParm(sum, name, p) ==
    IF name = "const" THEN (IF p < 0 THEN sum \o DecStr(p) ELSE sum)
    ELSE IF name = "local" THEN sum \o DecStr(p)
    ELSE sum

\* a wrong variant of MaxArgsAfterArg: the latest arg offset is kept
LatestArg(m, p) == p

\* arg:  if parm > maxArgs: maxArgs = parm
MaxArgsAfterArg(m, p) == IF p > m THEN p ELSE m

\* a wrong variant of NotFirstFunction: the code before the first enter is
\* not recorded
AfterFirstEnter(p) == funcStartInsNum >= 0

\* enter:  if pos > 5  (else it is the first function of the file)
NotFirstFunction(p) == p > 5

\* self.functionSizes[funcStartInsNum] = funcInsCount
RecordSize(sizes, addr, n) == DictPut(sizes, addr, n)

\* self.functionHashes[funcStartInsNum] = h
RecordHash(hashes, addr, h) == DictPut(hashes, addr, h)

\* a wrong variant of RecordRevHash: the latest address replaces the bucket
RecordLastAddr(rev, h, addr) == DictPut(rev, h, <<addr>>)

\* self.functionRevHashes[h]: append, or start the bucket
RecordRevHash(rev, h, addr) == DictAppend(rev, h, addr)

\* self.functionMaxArgsCalled[funcStartInsNum] = maxArgs
RecordMaxArgs(m, addr, n) == DictPut(m, addr, n)

\* a wrong variant of RecordJumpPoint: the latest source replaces the list
RecordLastJump(jp, target, source) == DictPut(jp, target, <<source>>)

\* jump after const, or a branch with a jump parameter
RecordJumpPoint(jp, target, source) == DictAppend(jp, target, source)

\* a wrong variant of RecordCallPoint: the latest caller replaces the list
RecordLastCaller(cp, target, caller) == DictPut(cp, target, <<caller>>)

\* call after const: the caller is the current function
RecordCallPoint(cp, target, caller) == DictAppend(cp, target, caller)

\* a wrong variant of AggregateParmNum: the first call site decides
FirstCallParmNum(pn, target, la) ==
    IF target \in DOMAIN pn THEN pn ELSE DictPut(pn, target, la)

\* call after const: the callee's argument count, or -1 once two calls differ
AggregateParmNum(pn, target, la) ==
    IF target \in DOMAIN pn
    THEN LET x == pn[target]
         IN  IF x # -1 /\ x # la THEN [pn EXCEPT ![target] = -1] ELSE pn
    ELSE DictPut(pn, target, la)

\* a wrong variant of AfterUnknownOpcode: the byte is skipped and the walk goes on
SkipUnknownOpcode == "analysis"

\* opcodes[opc] raises IndexError (line 941): the walk is abandoned
AfterUnknownOpcode == "error"

Step ==
    /\ phase = "analysis"
    /\ ins < instructionCount - 1
    /\ LET i == ins + 1
           prevOpc == opc
           prevParm == parm
           cur == codeData[i + 1]
           o == cur.opc
           cnt == CountInstruction(funcInsCount)
           sum == HashSumOpcode(funcHashSum, o)
       IN  /\ ins' = i
           /\ opc' = o
           /\ UNCHANGED <<loadVars, codeData, instructionCount, hashVars, annVars, disVars>>
           /\ IF ~KnownOpcode(o)
              THEN /\ phase' = AfterUnknownOpcode
                   /\ funcInsCount' = cnt
                   /\ funcHashSum' = sum
                   /\ pos' = pos + 1
                   /\ UNCHANGED <<funcStartInsNum, maxArgs, lastArg, parm, mapVars>>
              ELSE LET name == OpName(o)
                       psize == OpParmSize(o)
                       p == IF psize # 0 THEN cur.parm ELSE None
                       newPos == pos + 1 + psize
                       flush == name = "enter" /\ NotFirstFunction(newPos)
                       h == hash32BitSigned(sum)
                       afterConst == OpName(prevOpc) = "const"
                   IN  /\ phase' = "analysis"
                       /\ parm' = p
                       /\ pos' = newPos
                       /\ funcStartInsNum' = IF name = "enter" THEN i ELSE funcStartInsNum
                       /\ funcInsCount' = IF name = "enter" THEN 1 ELSE cnt
                       /\ funcHashSum' = IF name = "enter" THEN <<>>
                                         ELSE HashSumParm(sum, name, p)
                       /\ maxArgs' = IF name = "enter" THEN 8
                                     ELSE IF name = "arg" THEN MaxArgsAfterArg(maxArgs, p)
                                     ELSE maxArgs
                       /\ lastArg' = IF name \in {"pop", "enter"} THEN 0
                                     ELSE IF name = "arg" THEN p
                                     ELSE lastArg
                       /\ functionSizes' =
                            IF flush THEN RecordSize(functionSizes, funcStartInsNum, cnt)
                            ELSE functionSizes
                       /\ functionHashes' =
                            IF flush THEN RecordHash(functionHashes, funcStartInsNum, h)
                            ELSE functionHashes
                       /\ functionRevHashes' =
                            IF flush THEN RecordRevHash(functionRevHashes, h, funcStartInsNum)
                            ELSE functionRevHashes
                       /\ functionMaxArgsCalled' =
                            IF flush
                            THEN RecordMaxArgs(functionMaxArgsCalled, funcStartInsNum, maxArgs)
                            ELSE functionMaxArgsCalled
                       /\ jumpPoints' =
                            IF name = "jump"
                            THEN (IF afterConst THEN RecordJumpPoint(jumpPoints, prevParm, i)
                                  ELSE jumpPoints)
                            ELSE IF OpJumpParm(o) THEN RecordJumpPoint(jumpPoints, p, i)
                            ELSE jumpPoints
                       /\ callPoints' =
                            IF name = "call" /\ afterConst
                            THEN RecordCallPoint(callPoints, prevParm, funcStartInsNum)
                            ELSE callPoints
                       /\ functionParmNum' =
                            IF name = "call" /\ afterConst
                            THEN AggregateParmNum(functionParmNum, prevParm, lastArg)
                            ELSE functionParmNum

\* the statements after the loop: the last function is recorded
Finish ==
    /\ phase = "analysis"
    /\ ~(ins < instructionCount - 1)
    /\ LET h == hash32BitSigned(funcHashSum)
       IN  /\ functionSizes' = RecordSize(functionSizes, funcStartInsNum, funcInsCount)
           /\ functionHashes' = RecordHash(functionHashes, funcStartInsNum, h)
           /\ functionRevHashes' = RecordRevHash(functionRevHashes, h, funcStartInsNum)
           /\ functionMaxArgsCalled' =
                RecordMaxArgs(functionMaxArgsCalled, funcStartInsNum, maxArgs)
    /\ phase' = "done"
    /\ UNCHANGED <<loadVars, codeData, instructionCount, anaVars, functionParmNum,
                   jumpPoints, callPoints, hashVars, annVars, disVars>>

-----------------------------------------------------------------------------
(* Code segments *)

\* the instructions the general analysis is run on; opcode byte 60 is unknown
Instrs ==
    { Ins("enter", 16), Ins("leave", 16), Ins("arg", 4), Ins("arg", 16),
      Ins("arg", 32), Ins("const", -1), Ins("local", 4),
      [opc |-> 60, parm |-> None] }

CodeSegments(alphabet, n) == UNION { [1..k -> alphabet] : k \in 0..n }

\* the fragments the call-aggregation analysis is run on: a code segment is
\* the concatenation of up to MaxFrag of them
Fragments ==
    { <<Ins("enter", 16)>>, <<Ins("pop", None)>>, <<Ins("arg", 16)>>,
      <<Ins("arg", 32)>>, <<Ins("call", None)>>, <<Ins("const", 5)>>,
      <<Ins("const", 5), Ins("call", None)>>,
      <<Ins("const", 6), Ins("call", None)>> }

RECURSIVE Flatten(_)
Flatten(ss) == IF ss = <<>> THEN <<>> ELSE Head(ss) \o Flatten(Tail(ss))

CallSegments == { Flatten(fs) : fs \in CodeSegments(Fragments, MaxFrag) }

\* the locals of compute_function_info before the loop; all maps empty
AnalysisLocals ==
    /\ ins = -1
    /\ pos = 0
    /\ funcStartInsNum = -1
    /\ funcInsCount = 0
    /\ funcHashSum = <<>>
    /\ maxArgs = 8
    /\ lastArg = 0
    /\ opc = 0
    /\ parm = 0
    /\ functionSizes = EmptyDict
    /\ functionHashes = EmptyDict
    /\ functionRevHashes = EmptyDict
    /\ functionMaxArgsCalled = EmptyDict
    /\ functionParmNum = EmptyDict
    /\ jumpPoints = EmptyDict
    /\ callPoints = EmptyDict
    /\ hstr = <<>>
    /\ hres = None

\* compute_function_info is about to run its loop
AnalysisStart ==
    /\ phase = "analysis"
    /\ AnalysisLocals

\* a wrong variant of PadBytes: the buffer as it was read
Unpadded(buf, n) == buf

\* self.dataData = self.dataData + b"\x00\x00\x00\x00"  # for look ahead
PadBytes(buf, n) == buf \o [i \in 1..n |-> 0]

\* the look-ahead bytes appended to DATA and to LIT
DATA_PAD == 4
LIT_PAD == 4

\* the look-ahead bytes appended to CODE
CODE_PAD == 5

-----------------------------------------------------------------------------
(* The container.  __init__ reads the magic, the header and the three      *)
(* segments from the image file.  read_int, read and seek are those of the *)
(* base class LEBinFile over a Python binary file: a 32-bit little-endian  *)
(* signed integer, up to n bytes (fewer when fewer are left), and an       *)
(* absolute position.                                                      *)

\* QvmFile.magic = 0x12721444
magic == 309466180

\* the size of a header word
INT_SIZE == 4

\* struct.unpack("<l", b)[0]
UnpackInt(b) ==
    LET low == b[1] + 256 * b[2] + 65536 * b[3]
    IN  IF b[4] >= 128 THEN (b[4] - 256) * 16777216 + low
        ELSE b[4] * 16777216 + low

\* struct.pack("<l", n)
PackInt(n) ==
    << n % 256, (n \div 256) % 256, (n \div 65536) % 256, (n \div 16777216) % 256 >>

\* self._file.read(n) at position p: the bytes left when fewer than n are left
read(f, p, n) ==
    LET last == IF p + n < Len(f) THEN p + n ELSE Len(f)
    IN  SubSeq(f, p + 1, last)

\* self.read_int() at position p
read_int(f, p) == UnpackInt(read(f, p, INT_SIZE))

\* the k-th of the header words read from position p on (the first one is
\* instructionCount)
HeaderWord(f, p, k) == read_int(f, p + INT_SIZE * (k - 1))

\* one instruction as its bytes: the opcode byte and its immediate
EncodeIns(i) ==
    IF ~KnownOpcode(i.opc) THEN <<i.opc>>
    ELSE IF OpParmSize(i.opc) = 4 THEN <<i.opc>> \o PackInt(i.parm)
    ELSE IF OpParmSize(i.opc) = 1 THEN <<i.opc, i.parm>>
    ELSE <<i.opc>>

RECURSIVE EncodeCode(_)
EncodeCode(is) == IF is = <<>> THEN <<>> ELSE EncodeIns(Head(is)) \o EncodeCode(Tail(is))

\* the instruction decoded at byte offset p of a code buffer (lines 936-954)
DecodeIns(buf, p) ==
    LET o == buf[p + 1]
    IN  IF ~KnownOpcode(o) THEN [opc |-> o, parm |-> None]
        ELSE IF OpParmSize(o) = 4
             THEN [opc |-> o, parm |-> UnpackInt(SubSeq(buf, p + 2, p + 5))]
        ELSE IF OpParmSize(o) = 1 THEN [opc |-> o, parm |-> buf[p + 2]]
        ELSE [opc |-> o, parm |-> None]

\* the byte length of a decoded instruction
InsLength(i) == 1 + (IF KnownOpcode(i.opc) THEN OpParmSize(i.opc) ELSE 0)

\* the first n instructions of a code buffer, as the walks decode them
RECURSIVE DecodeCode(_, _, _)
DecodeCode(buf, p, n) ==
    IF n = 0 THEN <<>>
    ELSE LET i == DecodeIns(buf, p)
         IN  <<i>> \o DecodeCode(buf, p + InsLength(i), n - 1)

\* the header fields the model keeps only to load the segments
NoHeader ==
    [codeSegOffset |-> 0, codeSegLength |-> 0, dataSegOffset |-> 0,
     litSegOffset |-> 0, bssSegOffset |-> 0, bssSegLength |-> 0]

HeaderAttrs ==
    {"instructionCount", "codeSegOffset", "codeSegLength", "dataSegOffset",
     "dataSegLength", "litSegOffset", "litSegLength", "bssSegOffset", "bssSegLength"}

SegmentAttrs == {"codeData", "dataData", "litData"}

AnnotationAttrs ==
    {"syscalls", "functions", "functionsArgLabels", "functionsLocalLabels",
     "functionsLocalRangeLabels", "baseQ3FunctionRevHashes", "symbols",
     "symbolsRange", "constants", "commentsInline", "commentsBefore",
     "commentsBeforeSpacing", "commentsAfter", "commentsAfterSpacing",
     "dataCommentsInline", "dataCommentsBefore", "dataCommentsBeforeSpacing",
     "dataCommentsAfter", "dataCommentsAfterSpacing", "qvmType"}

AnalysisAttrs ==
    {"functionHashes", "functionRevHashes", "functionSizes",
     "functionMaxArgsCalled", "functionParmNum", "jumpPoints", "callPoints"}

AllAttrs == {"_file"} \cup HeaderAttrs \cup SegmentAttrs \cup AnnotationAttrs \cup AnalysisAttrs

\* an image file: the header, then CODE, DATA and LIT one after the other
ImageFile(m, insCount, codeLen, dataLen, litLen, body) ==
    PackInt(m) \o PackInt(insCount) \o PackInt(8 * INT_SIZE) \o PackInt(codeLen)
        \o PackInt(8 * INT_SIZE + codeLen) \o PackInt(dataLen) \o PackInt(litLen)
        \o PackInt(0) \o body

\* the header fields read from position p on, as lines 189-197 compute them
HeaderFrom(f, p) ==
    [codeSegOffset |-> HeaderWord(f, p, 2), codeSegLength |-> HeaderWord(f, p, 3),
     dataSegOffset |-> HeaderWord(f, p, 4),
     litSegOffset |-> HeaderWord(f, p, 4) + HeaderWord(f, p, 5),
     bssSegOffset |-> HeaderWord(f, p, 4) + HeaderWord(f, p, 5) + HeaderWord(f, p, 6),
     bssSegLength |-> HeaderWord(f, p, 7)]

\* the comment maps of __init__ (lines 231-242), all empty
EmptyStore ==
    [commentsInline |-> EmptyDict, commentsBefore |-> EmptyDict,
     commentsBeforeSpacing |-> EmptyDict, commentsAfter |-> EmptyDict,
     commentsAfterSpacing |-> EmptyDict, dataCommentsInline |-> EmptyDict,
     dataCommentsBefore |-> EmptyDict, dataCommentsBeforeSpacing |-> EmptyDict,
     dataCommentsAfter |-> EmptyDict, dataCommentsAfterSpacing |-> EmptyDict]

\* comments.dat is absent
NoComments ==
    /\ clines = <<>>
    /\ lineCount = 0
    /\ commentStore = EmptyStore

\* the object a well-formed image leaves once __init__ has loaded it
Constructed ==
    LET code == EncodeCode(codeData)
        data == SubSeq(dataData, 1, dataSegLength)
        lit == SubSeq(litData, 1, litSegLength)
    IN  /\ file = ImageFile(magic, instructionCount, Len(code), dataSegLength,
                            litSegLength, code \o data \o lit)
        /\ fpos = Len(file)
        /\ raised = "none"
        /\ attrs = AllAttrs
        /\ header = HeaderFrom(file, INT_SIZE)
        /\ codeBytes = PadBytes(code, CODE_PAD)
        /\ NoComments

\* empty DATA and LIT segments
NoSegments ==
    /\ dataData = PadBytes(<<>>, DATA_PAD)
    /\ litData = PadBytes(<<>>, LIT_PAD)

\* no sidecar file is present: the annotation maps of __init__
NoAnnotations ==
    /\ syscalls = EmptyDict
    /\ functions = EmptyDict
    /\ functionsArgLabels = EmptyDict
    /\ functionsLocalLabels = EmptyDict
    /\ functionsLocalRangeLabels = EmptyDict
    /\ baseQ3FunctionRevHashes = EmptyDict
    /\ symbols = EmptyDict
    /\ symbolsRange = <<>>
    /\ constants = EmptyDict

\* no print call has returned
NoDumps ==
    [code |-> [comments |-> <<>>, above |-> <<>>], data |-> <<>>, lit |-> <<>>,
     hashes |-> <<>>, ran |-> {}]

\* print_code_disassembly has not been called
DisassemblyIdle ==
    /\ count = -1
    /\ dpos = 0
    /\ currentFuncAddr = None
    /\ stackAdjust = Unbound
    /\ comments = <<>>
    /\ above = <<>>
    /\ dumps = NoDumps

Init ==
    /\ codeData \in CodeSegments(Instrs, MaxIns)
    /\ instructionCount = Len(codeData)
    /\ dataSegLength = 0
    /\ litSegLength = 0
    /\ NoSegments
    /\ AnalysisStart
    /\ NoAnnotations
    /\ DisassemblyIdle
    /\ Constructed

InitCall ==
    /\ codeData \in CallSegments
    /\ instructionCount = Len(codeData)
    /\ dataSegLength = 0
    /\ litSegLength = 0
    /\ NoSegments
    /\ AnalysisStart
    /\ NoAnnotations
    /\ DisassemblyIdle
    /\ Constructed

Next == Step \/ Finish

Spec == Init /\ [][Next]_vars

SpecCall == InitCall /\ [][Next]_vars

-----------------------------------------------------------------------------
(* __init__, step by step, on image files that may carry a wrong magic or  *)
(* end before the segments their header announces.                         *)

\* a wrong variant of MagicMismatch: the magic is never tested
MagicUnchecked(m) == FALSE

\* if m != self.magic
MagicMismatch(m) == m # magic

\* lines 185-187: the first word is read and compared
ReadMagic ==
    /\ phase = "open"
    /\ LET m == read_int(file, fpos)
       IN  IF MagicMismatch(m)
           THEN /\ phase' = "raised"
                /\ raised' = "InvalidQvmFile"
           ELSE /\ phase' = "header"
                /\ raised' = raised
    /\ fpos' = fpos + INT_SIZE
    /\ UNCHANGED <<commentVars, file, attrs, header, codeBytes, codeData, instructionCount,
                   anaVars, mapVars, hashVars, annVars, disVars>>

\* lines 189-197: the seven header words
ReadHeader ==
    /\ phase = "header"
    /\ instructionCount' = HeaderWord(file, fpos, 1)
    /\ dataSegLength' = HeaderWord(file, fpos, 5)
    /\ litSegLength' = HeaderWord(file, fpos, 6)
    /\ header' = HeaderFrom(file, fpos)
    /\ fpos' = fpos + 7 * INT_SIZE
    /\ attrs' = attrs \cup HeaderAttrs
    /\ phase' = "segments"
    /\ UNCHANGED <<commentVars, file, raised, codeBytes, codeData, anaVars, mapVars, hashVars,
                   dataData, litData, storeVars, disVars>>

\* lines 199-208: each segment is sought, read and padded; no length is
\* compared with the number of bytes read
LoadSegments ==
    /\ phase = "segments"
    /\ LET code == read(file, header.codeSegOffset, header.codeSegLength)
           data == read(file, header.dataSegOffset, dataSegLength)
           lit == read(file, header.litSegOffset, litSegLength)
       IN  /\ codeBytes' = PadBytes(code, CODE_PAD)
           /\ codeData' = DecodeCode(PadBytes(code, CODE_PAD), 0, instructionCount)
           /\ dataData' = PadBytes(data, DATA_PAD)
           /\ litData' = PadBytes(lit, LIT_PAD)
           /\ fpos' = header.litSegOffset + Len(lit)
    /\ attrs' = attrs \cup SegmentAttrs
    /\ phase' = "maps"
    /\ UNCHANGED <<commentVars, file, raised, header, instructionCount, anaVars, mapVars, hashVars,
                   dataSegLength, litSegLength, storeVars, disVars>>

\* lines 210-248: the maps start empty; without a qvm type and without
\* sidecar files set_qvm_type and load_address_info leave them empty
InitMaps ==
    /\ phase = "maps"
    /\ syscalls' = EmptyDict
    /\ functions' = EmptyDict
    /\ functionsArgLabels' = EmptyDict
    /\ functionsLocalLabels' = EmptyDict
    /\ functionsLocalRangeLabels' = EmptyDict
    /\ baseQ3FunctionRevHashes' = EmptyDict
    /\ symbols' = EmptyDict
    /\ symbolsRange' = <<>>
    /\ constants' = EmptyDict
    /\ functionSizes' = EmptyDict
    /\ functionHashes' = EmptyDict
    /\ functionRevHashes' = EmptyDict
    /\ functionMaxArgsCalled' = EmptyDict
    /\ functionParmNum' = EmptyDict
    /\ jumpPoints' = EmptyDict
    /\ callPoints' = EmptyDict
    /\ attrs' = attrs \cup AnnotationAttrs \cup AnalysisAttrs
    /\ phase' = "analysis"
    /\ UNCHANGED <<commentVars, file, fpos, raised, header, codeBytes, codeData, instructionCount,
                   anaVars, hashVars, dataSegLength, litSegLength, dataData, litData,
                   disVars>>

\* most bytes missing at the end of an image file
MaxCut == 3
\* longest code segment of an image file, in instructions
MaxLoadIns == 2

LoadInstrs == { Ins("enter", 16), Ins("leave", 16), Ins("const", -1), Ins("arg", 8) }

\* the first word of an image file
Magics == { magic, magic + 1, 0 }

\* the bytes of a DATA segment of n bytes
DataImage(n) == [i \in 1..n |-> i]

\* the file has been opened (line 184); nothing else is assigned
InitLoad ==
    /\ \E m \in Magics, is \in CodeSegments(LoadInstrs, MaxLoadIns),
          dataLen \in {0, 4}, lit \in { <<>>, <<97, 0>> }, cut \in 0..MaxCut :
          LET body == EncodeCode(is) \o DataImage(dataLen) \o lit
              full == ImageFile(m, Len(is), Len(EncodeCode(is)), dataLen, Len(lit), body)
          IN  /\ cut <= Len(body)
              /\ file = SubSeq(full, 1, Len(full) - cut)
    /\ fpos = 0
    /\ raised = "none"
    /\ attrs = {"_file"}
    /\ header = NoHeader
    /\ codeBytes = <<>>
    /\ codeData = <<>>
    /\ instructionCount = 0
    /\ dataSegLength = 0
    /\ litSegLength = 0
    /\ dataData = <<>>
    /\ litData = <<>>
    /\ phase = "open"
    /\ NoComments
    /\ AnalysisLocals
    /\ NoAnnotations
    /\ DisassemblyIdle

NextLoad == ReadMagic \/ ReadHeader \/ LoadSegments \/ InitMaps \/ Step \/ Finish

SpecLoad == InitLoad /\ [][NextLoad]_vars

-----------------------------------------------------------------------------
(* hash32BitSigned on its own: the strings are those of accumulators       *)
(* (decimal digits and the minus sign) and of names (a letter).            *)

HashChars == {45, 48, 49, 51, 57, 97}

\* the analysis is not running: its variables are those of a fresh object
AnalysisIdle ==
    /\ codeData = <<>>
    /\ instructionCount = 0
    /\ ins = -1
    /\ pos = 0
    /\ funcStartInsNum = -1
    /\ funcInsCount = 0
    /\ funcHashSum = <<>>
    /\ maxArgs = 8
    /\ lastArg = 0
    /\ opc = 0
    /\ parm = 0
    /\ functionSizes = EmptyDict
    /\ functionHashes = EmptyDict
    /\ functionRevHashes = EmptyDict
    /\ functionMaxArgsCalled = EmptyDict
    /\ functionParmNum = EmptyDict
    /\ jumpPoints = EmptyDict
    /\ callPoints = EmptyDict

InitHash ==
    /\ phase = "hash"
    /\ hstr \in UNION { [1..k -> HashChars] : k \in 0..MaxStr }
    /\ hres = None
    /\ AnalysisIdle
    /\ dataSegLength = 0
    /\ litSegLength = 0
    /\ NoSegments
    /\ NoAnnotations
    /\ DisassemblyIdle
    /\ Constructed

ApplyHash ==
    /\ phase = "hash"
    /\ hres' = hash32BitSigned(hstr)
    /\ phase' = "hashed"
    /\ UNCHANGED <<loadVars, codeData, instructionCount, anaVars, mapVars, hstr, annVars, disVars>>

NextHash == ApplyHash

SpecHash == InitHash /\ [][NextHash]_vars

-----------------------------------------------------------------------------
(* What the code segment says, read off codeData without the walk *)

Max(S) == CHOOSE x \in S : \A y \in S : y <= x

RECURSIVE SumOf(_, _)
SumOf(d, keys) ==
    IF keys = {} THEN 0
    ELSE LET k == CHOOSE x \in keys : TRUE
         IN  d[k] + SumOf(d, keys \ {k})

\* the elements of a finite set of integers, in increasing order
RECURSIVE Ascending(_)
Ascending(S) ==
    IF S = {} THEN <<>>
    ELSE LET m == Max(S) IN Append(Ascending(S \ {m}), m)

\* instruction indices count from 0
OpcAt(i) == codeData[i + 1].opc
ParmAt(i) == codeData[i + 1].parm
IsAt(i, name) == KnownOpcode(OpcAt(i)) /\ OpName(OpcAt(i)) = name

\* the instructions the walk has gone through
Walked == IF phase = "error" THEN ins ELSE ins + 1

EnterIndices == { i \in 0..(instructionCount - 1) : IsAt(i, "enter") }

\* the start of the function instruction i lies in: the last enter at or
\* before i, and -1 (the initial funcStartInsNum) before the first enter
EnclosingStart(i) ==
    LET E == { j \in 0..i : IsAt(j, "enter") }
    IN  IF E = {} THEN -1 ELSE Max(E)

\* the instructions from the enter at a (from 0 for a = -1) up to the next enter
BodyOf(a) ==
    { i \in 0..(instructionCount - 1) : i # a /\ EnclosingStart(i) = a }

\* the calls among the first n instructions that directly follow  const K
CallSites(K, n) ==
    { i \in 1..(n - 1) :
        /\ IsAt(i, "call")
        /\ IsAt(i - 1, "const")
        /\ ParmAt(i - 1) = K }

ConstParms == { codeData[i].parm : i \in { j \in DOMAIN codeData :
                    KnownOpcode(codeData[j].opc) /\ OpName(codeData[j].opc) = "const" } }

\* the immediate of the last arg before instruction i, back to the last pop
\* or enter; 0 if there is none
LastArgBefore(i) ==
    LET R == { j \in 0..(i - 1) : IsAt(j, "pop") \/ IsAt(j, "enter") \/ IsAt(j, "arg") }
    IN  IF R = {} THEN 0
        ELSE IF IsAt(Max(R), "arg") THEN ParmAt(Max(R)) ELSE 0

-----------------------------------------------------------------------------
(* C1 *)

\* C1: after compute_function_info the function sizes add up to
\* instruction_count (every instruction is counted in exactly one function)
C1_SizesSumToInstructionCount ==
    phase = "done" =>
        SumOf(functionSizes, DOMAIN functionSizes) = instructionCount

(* C2 *)

\* C2: after compute_function_info the keys of function_sizes,
\* function_hashes and function_max_args_called are exactly the indices of
\* the enter instructions
C2_KeysAreEnterIndices ==
    phase = "done" =>
        /\ DOMAIN functionSizes = EnterIndices
        /\ DOMAIN functionHashes = EnterIndices
        /\ DOMAIN functionMaxArgsCalled = EnterIndices

(* C3 *)

\* the callers the walk of the first n instructions must have listed for K
ExpectedCallers(K, n) ==
    LET sites == Ascending(CallSites(K, n))
    IN  [k \in 1..Len(sites) |-> EnclosingStart(sites[k])]

\* C3: at every point of the walk, call_points[K] lists, for each call that
\* directly follows const K, the start of the enclosing function (-1 before
\* the first enter), one entry per call in walk order; other calls add nothing
C3_CallPoints ==
    /\ DOMAIN callPoints = { K \in ConstParms : CallSites(K, Walked) # {} }
    /\ \A K \in DOMAIN callPoints : callPoints[K] = ExpectedCallers(K, Walked)

\* const 5; call reached twice from two different functions, and a call
\* that follows no const
C3_Witness ==
    /\ phase = "done"
    /\ 5 \in DOMAIN callPoints
    /\ Len(callPoints[5]) = 2
    /\ callPoints[5][1] # callPoints[5][2]
    /\ \E i \in 1..(instructionCount - 1) : IsAt(i, "call") /\ ~IsAt(i - 1, "const")

(* C4 *)

\* the value parm_num[K] must have after the first n instructions: last_arg
\* of the first call, -1 as soon as a later call has another last_arg
ExpectedParmNum(K, n) ==
    LET sites == CallSites(K, n)
        first == CHOOSE i \in sites : \A j \in sites : i <= j
    IN  IF \A i \in sites : LastArgBefore(i) = LastArgBefore(first)
        THEN LastArgBefore(first)
        ELSE -1

C4_ParmNumValue ==
    /\ DOMAIN functionParmNum = { K \in ConstParms : CallSites(K, Walked) # {} }
    /\ \A K \in DOMAIN functionParmNum :
          functionParmNum[K] = ExpectedParmNum(K, Walked)

C4_ParmNumStep ==
    \A K \in DOMAIN functionParmNum :
        /\ K \in DOMAIN functionParmNum'
        /\ functionParmNum[K] = -1 => functionParmNum'[K] = -1
        /\ functionParmNum'[K] # functionParmNum[K] =>
              /\ functionParmNum'[K] = -1
              /\ IsAt(ins', "call") /\ IsAt(ins' - 1, "const") /\ ParmAt(ins' - 1) = K
              /\ functionParmNum[K] # LastArgBefore(ins')

\* C4: parm_num[K] is last_arg at the first const K; call; a later
\* const K; call turns it into -1 exactly when it is not -1 and differs from
\* last_arg; once -1 it stays -1
C4_ParmNum == [](C4_ParmNumValue) /\ [][C4_ParmNumStep]_vars

\* a callee became variadic, was called again, and stayed variadic
C4_Witness ==
    /\ phase = "done"
    /\ 5 \in DOMAIN functionParmNum
    /\ functionParmNum[5] = -1
    /\ Cardinality(CallSites(5, instructionCount)) = 3
    /\ \E i \in CallSites(5, instructionCount) :
          i < Max(CallSites(5, instructionCount)) /\ ExpectedParmNum(5, i + 1) = -1

(* C5 *)

ArgsIn(a) == { ParmAt(i) : i \in { j \in BodyOf(a) : IsAt(j, "arg") } }

\* C5: function_max_args_called of a recorded function is the largest of 8
\* and the immediates of the arg instructions between its enter and the next
\* enter (or the end of the code)
C5_MaxArgsCalled ==
    phase = "done" =>
        \A a \in DOMAIN functionMaxArgsCalled :
            functionMaxArgsCalled[a] = Max({8} \cup ArgsIn(a))

\* arg 32 followed by a smaller arg in one function, and a function after
\* it that has no arg above 8
C5_Witness ==
    /\ phase = "done"
    /\ \E a \in DOMAIN functionMaxArgsCalled :
          /\ functionMaxArgsCalled[a] = 32
          /\ \E i, j \in BodyOf(a) :
                i < j /\ IsAt(i, "arg") /\ ParmAt(i) = 32 /\ IsAt(j, "arg") /\ ParmAt(j) < 32
          /\ \E b \in DOMAIN functionMaxArgsCalled : b > a /\ functionMaxArgsCalled[b] = 8

(* C6 *)

\* the reference hash works on unsigned 32-bit residues <<high, low>>:
\* x * 1000003 modulo 2^32 by long multiplication with 1000003 = 15 * 2^16 + 16963
RefTimes1000003(u) ==
    LET lowProduct == 16963 * u[2]
    IN  <<(16963 * u[1] + 15 * u[2] + (lowProduct \div Half)) % Half, lowProduct % Half>>

\* exclusive or of two 16-bit values, bit by bit from bit k downwards
RECURSIVE RefXorBits(_, _, _)
RefXorBits(x, y, k) ==
    LET bit == IF ((x \div (2 ^ k)) % 2) = ((y \div (2 ^ k)) % 2) THEN 0 ELSE 2 ^ k
    IN  IF k = 0 THEN bit ELSE bit + RefXorBits(x, y, k - 1)

RefXor(u, w) == <<RefXorBits(u[1], w[1], 15), RefXorBits(u[2], w[2], 15)>>

\* the residue modulo 2^32 of a signed 32-bit value, and back (top bit as sign)
RefResidue(v) == IF v < 0 THEN <<Half + (v \div Half), v % Half>>
                 ELSE <<v \div Half, v % Half>>
RefSigned(u) == IF u[1] >= 32768 THEN ((u[1] - Half) * Half) + u[2] ELSE (u[1] * Half) + u[2]

RefStep[value \in Int, char \in Int] ==
    RefSigned(RefXor(RefTimes1000003(RefResidue(value)), RefResidue(char)))

RefHash(s) ==
    IF Len(s) = 0 THEN 0
    ELSE LET value[i \in 0..Len(s)] ==
                 IF i = 0 THEN s[1] * 128 ELSE RefStep[value[i - 1], s[i]]
             final == RefSigned(RefXor(RefResidue(value[Len(s)]), RefResidue(Len(s))))
         IN  IF final = -1 THEN -2 ELSE final

\* C6: hash32BitSigned(s) is the reference hash of s, lies within
\* [-2^31, 2^31 - 1] and is never -1
C6_HashMatchesReference ==
    phase = "hashed" =>
        /\ hres = RefHash(hstr)
        /\ hres >= -2147483647 - 1
        /\ hres <= 2147483647
        /\ hres # -1

\* a string of three characters whose hash has the top bit set, next to
\* the empty string hashing to 0
C6_Witness ==
    /\ phase = "hashed"
    /\ Len(hstr) = 3
    /\ hres < 0

(* C7 *)

\* C7: function_rev_hashes is the inverse index of function_hashes: the
\* bucket of h holds the addresses whose hash is h, each once, in increasing
\* (walk) order
C7_RevHashesInverse ==
    phase = "done" =>
        /\ DOMAIN functionRevHashes = { functionHashes[a] : a \in DOMAIN functionHashes }
        /\ \A h \in DOMAIN functionRevHashes :
              functionRevHashes[h] =
                  Ascending({ a \in DOMAIN functionHashes : functionHashes[a] = h })

\* two functions share a hash, a third has another one
C7_Witness ==
    /\ phase = "done"
    /\ \E h \in DOMAIN functionRevHashes : Len(functionRevHashes[h]) = 2
    /\ Cardinality(DOMAIN functionRevHashes) >= 2

-----------------------------------------------------------------------------
(* print_code_disassembly: the comment attached to each instruction.       *)
(* A range map (functionsLocalRangeLabels[f], symbolsRange) is a dict in   *)
(* insertion order: a sequence of [addr, ranges], ranges a sequence of     *)
(* <<size, sym>>.                                                          *)

HexDigit == <<"0", "1", "2", "3", "4", "5", "6", "7", "8", "9",
              "a", "b", "c", "d", "e", "f">>

\* "%x" % n  for n >= 0
RECURSIVE HexStr(_)
HexStr(n) ==
    IF n < 16 THEN HexDigit[n + 1]
    ELSE HexStr(n \div 16) \o HexDigit[(n % 16) + 1]

\* "%d" % n  for n >= 0
RECURSIVE DecText(_)
DecText(n) ==
    IF n < 10 THEN HexDigit[n + 1]
    ELSE DecText(n \div 10) \o HexDigit[(n % 10) + 1]

\* ", ".join(names)
RECURSIVE JoinNames(_)
JoinNames(names) ==
    IF Len(names) = 1 THEN names[1]
    ELSE names[1] \o ", " \o JoinNames(Tail(names))

\* the locals of the scan before its loops; found is  match != None
ScanStart ==
    [exactMatches |-> <<>>, found |-> FALSE, match |-> 0, matchDiff |-> 0,
     matchSym |-> "", matchRangeSize |-> 0]

ScanTake(st, q, addr, size, sym) ==
    [st EXCEPT !.found = TRUE, !.match = addr, !.matchDiff = q - addr,
               !.matchSym = sym, !.matchRangeSize = size]

\* a wrong variant of SmallerRange: on equal distance the larger range wins
LargerRange(size, matchRangeSize) == size > matchRangeSize

\* on equal distance:  if size < matchRangeSize
SmallerRange(size, matchRangeSize) == size < matchRangeSize

\* the body of the inner loop, for the range <<size, sym>> registered at addr
ScanOne(st, q, addr, size, sym) ==
    IF q = addr THEN [st EXCEPT !.exactMatches = Append(@, sym)]
    ELSE IF q >= addr /\ q < addr + size
    THEN IF ~st.found THEN ScanTake(st, q, addr, size, sym)
         ELSE IF q - addr < st.matchDiff THEN ScanTake(st, q, addr, size, sym)
         ELSE IF q - addr = st.matchDiff
         THEN (IF SmallerRange(size, st.matchRangeSize)
               THEN ScanTake(st, q, addr, size, sym) ELSE st)
         ELSE st
    ELSE st

\* for r in map[addr]
ScanRanges(st0, q, addr, ranges) ==
    LET st[i \in 0..Len(ranges)] ==
            IF i = 0 THEN st0
            ELSE ScanOne(st[i - 1], q, addr, ranges[i][1], ranges[i][2])
    IN  st[Len(ranges)]

\* for addr in map
ScanMap(q, map) ==
    LET st[i \in 0..Len(map)] ==
            IF i = 0 THEN ScanStart
            ELSE ScanRanges(st[i - 1], q, map[i].addr, map[i].ranges)
    IN  st[Len(map)]

\* the comment the scan ends with
ScanComment(st) ==
    IF Len(st.exactMatches) > 0 THEN JoinNames(st.exactMatches)
    ELSE IF st.found THEN st.matchSym \o " + 0x" \o HexStr(st.matchDiff)
    ELSE None

\* the three copies of the scan in the source
LocalRangeLookup(f, q) == ScanComment(ScanMap(q, functionsLocalRangeLabels[f]))
DataRangeLookup(q) == ScanComment(ScanMap(q, symbolsRange))
BssRangeLookup(q) == ScanComment(ScanMap(q, symbolsRange))

\* elif name == "local"  (stackAdjust is bound: an enter came before)
LocalComment(f, p) ==
    LET argNum == p - stackAdjust[1] - 8
        argstr == "arg" \o DecText(argNum \div 4)
    IN  IF argNum >= 0
        THEN IF f \in DOMAIN functionsArgLabels /\ argstr \in DOMAIN functionsArgLabels[f]
             THEN argstr \o " : " \o functionsArgLabels[f][argstr]
             ELSE argstr
        ELSE IF f \in DOMAIN functionsLocalLabels
             THEN (IF p \in DOMAIN functionsLocalLabels[f]
                   THEN functionsLocalLabels[f][p] ELSE None)
             ELSE IF f \in DOMAIN functionsLocalRangeLabels
             THEN LocalRangeLookup(f, p)
             ELSE None

\* comment = "";  for n in names: comment += " ?%s()" % n
RECURSIVE GuessedNames(_)
GuessedNames(names) ==
    IF names = <<>> THEN ""
    ELSE " ?" \o Head(names) \o "()" \o GuessedNames(Tail(names))

\* const followed by call: the name of the call target
CallTargetComment(p) ==
    IF p < 0 /\ p \in DOMAIN syscalls THEN syscalls[p] \o "()"
    ELSE IF p \in DOMAIN functions THEN functions[p] \o "()"
    ELSE IF p \in DOMAIN functionHashes
    THEN (IF functionHashes[p] \in DOMAIN baseQ3FunctionRevHashes
          THEN GuessedNames(baseQ3FunctionRevHashes[functionHashes[p]])
          ELSE ":unknown function:")
    ELSE None

\* symbols (exact) before symbolsRange
SymbolComment(p, lookup) == IF p \in DOMAIN symbols THEN symbols[p] ELSE lookup

\* elif name == "const";  c is the instruction index, next the mnemonic of
\* the opcode byte that follows the immediate.  The literal string and the
\* DATA bytes are written on a line of their own and leave comment alone.
ConstComment(c, p, next) ==
    IF c \in DOMAIN constants
    THEN (IF p # constants[c][2] THEN "FIXME constant val != to code val"
          ELSE constants[c][1])
    ELSE IF p >= dataSegLength /\ p < dataSegLength + litSegLength
            /\ next \notin {"call", "jump"}
    THEN None
    ELSE IF p >= 0 /\ p < dataSegLength /\ next \notin {"call", "jump"}
    THEN SymbolComment(p, DataRangeLookup(p))
    ELSE IF next = "call" THEN CallTargetComment(p)
    ELSE IF p >= dataSegLength /\ next \notin {"call", "jump"}
    THEN SymbolComment(p, BssRangeLookup(p))
    ELSE None

\* the character codes of  "%x" % n  for n >= 0
RECURSIVE HexCodes(_)
HexCodes(n) ==
    LET d == n % 16
        c == IF d < 10 THEN 48 + d ELSE 87 + d
    IN  IF n < 16 THEN <<c>> ELSE Append(HexCodes(n \div 16), c)

\* a wrong variant of Printable: the space is not printable
PrintableAboveSpace(c) == c > 32 /\ c < 127

\* elif c > 31  and  c < 127
Printable(c) == c > 31 /\ c < 127

\* what one byte of a literal adds to chars ("\" is 92, n 110, t 116, x 120)
LitChars(c) ==
    IF c = 10 THEN <<92, 110>>
    ELSE IF c = 9 THEN <<92, 116>>
    ELSE IF Printable(c) THEN <<c>>
    ELSE <<92, 120>> \o HexCodes(c)

\* the index (from 0) at which the scan from start ends: that of the first
\* NUL, or Len(litData), where the read raises IndexError
LitScanEnd(start) ==
    CHOOSE i \in start..Len(litData) :
        /\ i = Len(litData) \/ litData[i + 1] = 0
        /\ \A j \in start..(i - 1) : litData[j + 1] # 0

\* "".join(chars)
LitString(start) ==
    LET end == LitScanEnd(start)
        chars[i \in start..end] ==
            IF i = start THEN <<>> ELSE chars[i - 1] \o LitChars(litData[i])
    IN  chars[end]

\* const: the operand points into the literal pool / into DATA
IsLitOperand(c, p, next) ==
    /\ c \notin DOMAIN constants
    /\ p >= dataSegLength /\ p < dataSegLength + litSegLength
    /\ next \notin {"call", "jump"}

\* a wrong variant of IsDataOperand: a named constant does not stop the dump
IsDataAddress(c, p, next) ==
    /\ ~(p >= dataSegLength /\ p < dataSegLength + litSegLength)
    /\ p >= 0 /\ p < dataSegLength
    /\ next \notin {"call", "jump"}

IsDataOperand(c, p, next) ==
    /\ c \notin DOMAIN constants
    /\ ~(p >= dataSegLength /\ p < dataSegLength + litSegLength)
    /\ p >= 0 /\ p < dataSegLength
    /\ next \notin {"call", "jump"}

\* a read past the end of a buffer (IndexError)
ConstReadError(c, p, next) ==
    \/ IsLitOperand(c, p, next) /\ LitScanEnd(p - dataSegLength) = Len(litData)
    \/ IsDataOperand(c, p, next) /\ p + 3 >= Len(dataData)

NoLine == [kind |-> "none", bytes |-> <<>>]

\* the line written above a const: the quoted literal (its characters), or
\* the dump of the four DATA bytes at the operand
ConstLine(c, p, next) ==
    IF IsLitOperand(c, p, next)
    THEN [kind |-> "lit", bytes |-> LitString(p - dataSegLength)]
    ELSE IF IsDataOperand(c, p, next)
    THEN [kind |-> "data", bytes |-> SubSeq(dataData, p + 1, p + 4)]
    ELSE NoLine

\* the header of a function reads functionHashes and functionMaxArgsCalled
\* without a test: a missing key is a KeyError
HeaderKeyError(addr) ==
    \/ /\ addr \in DOMAIN callPoints
       /\ \E k \in DOMAIN callPoints[addr] :
             /\ callPoints[addr][k] \notin DOMAIN functions
             /\ callPoints[addr][k] \notin DOMAIN functionHashes
    \/ addr \notin DOMAIN functions /\ addr \notin DOMAIN functionHashes
    \/ addr \notin DOMAIN functionMaxArgsCalled

\* the locals of one call are not those of the next
KeepCount == count

\* count = -1: every call starts before the first instruction
ResetCount == -1

\* a call of print_code_disassembly on the constructed object
DisBegin ==
    /\ phase = "done"
    /\ phase' = "disassembly"
    /\ count' = ResetCount
    /\ dpos' = 0
    /\ currentFuncAddr' = None
    /\ stackAdjust' = Unbound
    /\ comments' = <<>>
    /\ above' = <<>>
    /\ UNCHANGED <<loadVars, codeData, instructionCount, anaVars, mapVars, hashVars, annVars,
                   dumps>>

\* one iteration of its loop.  stackAdjust is bound by an enter only: a local
\* before the first enter reads an unbound name (UnboundLocalError)
DisStep ==
    /\ phase = "disassembly"
    /\ count < instructionCount - 1
    /\ LET c == count + 1
           cur == codeData[c + 1]
           name == OpName(cur.opc)
           psize == OpParmSize(cur.opc)
           p == IF psize = 0 THEN None ELSE cur.parm
           newPos == dpos + 1 + psize
           \* codeData[pos]: the byte after the immediate, which is the next
           \* opcode byte or the first byte of the padding; past the buffer
           \* the read raises IndexError
           peekError == ~(newPos < Len(codeBytes))
           nextOp == IF peekError THEN 0 ELSE codeBytes[newPos + 1]
           failed == \/ name = "enter" /\ HeaderKeyError(c)
                     \/ name = "local" /\ stackAdjust = Unbound
                     \/ name = "const" /\ peekError
                     \/ name = "const" /\ ConstReadError(c, p, OpName(nextOp))
       IN  /\ count' = c
           /\ dpos' = newPos
           /\ phase' = IF failed THEN "error" ELSE "disassembly"
           /\ currentFuncAddr' = IF name = "enter" THEN c ELSE currentFuncAddr
           /\ stackAdjust' = IF name = "enter" THEN <<p>> ELSE stackAdjust
           /\ comments' =
                IF failed THEN comments
                ELSE IF name = "local"
                THEN Append(comments, LocalComment(currentFuncAddr, p))
                ELSE IF name = "const"
                THEN Append(comments, ConstComment(c, p, OpName(nextOp)))
                ELSE Append(comments, None)
           /\ above' =
                IF failed THEN above
                ELSE IF name = "const"
                THEN Append(above, ConstLine(c, p, OpName(nextOp)))
                ELSE Append(above, NoLine)
    /\ UNCHANGED <<loadVars, codeData, instructionCount, anaVars, mapVars, hashVars, annVars,
                   dumps>>

\* the loop is over: the call returns
DisEnd ==
    /\ phase = "disassembly"
    /\ ~(count < instructionCount - 1)
    /\ phase' = "done"
    /\ dumps' = [dumps EXCEPT !.code = [comments |-> comments, above |-> above],
                              !.ran = @ \cup {"code"}]
    /\ UNCHANGED <<loadVars, codeData, instructionCount, anaVars, mapVars, hashVars, annVars,
                   count, dpos, currentFuncAddr, stackAdjust, comments, above>>

-----------------------------------------------------------------------------
(* The annotation files, as load_address_info leaves them in the maps *)

\* the longest list of range lines
MaxRanges == 3

\* symbolsRange / functionsLocalRangeLabels[f]:  if not addr in map:
\* map[addr] = [];  map[addr].append([size, sym])
RangeInsert(map, addr, size, sym) ==
    IF \E k \in DOMAIN map : map[k].addr = addr
    THEN [k \in DOMAIN map |->
            IF map[k].addr = addr
            THEN [map[k] EXCEPT !.ranges = Append(@, <<size, sym>>)]
            ELSE map[k]]
    ELSE Append(map, [addr |-> addr, ranges |-> <<<<size, sym>>>>])

\* the lines of a file, in order
RECURSIVE LoadRanges(_)
LoadRanges(lines) ==
    IF lines = <<>> THEN <<>>
    ELSE LET l == lines[Len(lines)]
         IN  RangeInsert(LoadRanges(SubSeq(lines, 1, Len(lines) - 1)),
                         l.addr, l.size, l.sym)

RangeLines == [addr : {0, 12}, size : {4, 16}, sym : {"a", "b"}]

RangeMaps == { LoadRanges(ls) : ls \in CodeSegments(RangeLines, MaxRanges) }

\* the operands looked up
Queries == {12, 14}

\* a function with range labels for its locals, and perhaps an exact label
LocalRangeScenario ==
    /\ codeData \in { <<Ins("enter", 16), Ins("local", q), Ins("leave", 16)>> :
                        q \in Queries }
    /\ dataSegLength = 0
    /\ functionsLocalRangeLabels \in
          { IF m = <<>> THEN EmptyDict ELSE 0 :> m : m \in RangeMaps }
    /\ functionsLocalLabels \in { EmptyDict, 0 :> (12 :> "x") }
    /\ functionsArgLabels = EmptyDict
    /\ symbols = EmptyDict
    /\ symbolsRange = <<>>
    /\ syscalls = EmptyDict
    /\ functions = EmptyDict
    /\ baseQ3FunctionRevHashes = EmptyDict
    /\ constants = EmptyDict

\* an address of the DATA segment (dataSegLength 16) or of BSS (0)
SymbolRangeScenario ==
    /\ codeData \in { <<Ins("enter", 16), Ins("const", q), Ins("leave", 16)>> :
                        q \in Queries }
    /\ dataSegLength \in {0, 16}
    /\ symbolsRange \in RangeMaps
    /\ symbols \in { EmptyDict, 12 :> "s" }
    /\ functionsLocalRangeLabels = EmptyDict
    /\ functionsLocalLabels = EmptyDict
    /\ functionsArgLabels = EmptyDict
    /\ syscalls = EmptyDict
    /\ functions = EmptyDict
    /\ baseQ3FunctionRevHashes = EmptyDict
    /\ constants = EmptyDict

\* "854": the accumulator of  const; call; leave  after an enter
BaseFunctionSum == DecStr(854)

\* a const before a call or a jump
CallScenario ==
    /\ codeData \in { <<Ins("enter", 16), Ins("const", p), Ins(x, None),
                        Ins("leave", 16)>> : p \in {-1, 0, 7}, x \in {"call", "jump"} }
    /\ dataSegLength = 0
    /\ syscalls \in { EmptyDict, (-1) :> "Sys_Print" }
    /\ functions \in { EmptyDict, 0 :> "main" }
    /\ baseQ3FunctionRevHashes \in
          { EmptyDict, hash32BitSigned(BaseFunctionSum) :> <<"G_Printf", "G_Error">> }
    /\ constants \in { EmptyDict, 1 :> <<"K", 0>> }
    /\ functionsLocalRangeLabels = EmptyDict
    /\ functionsLocalLabels = EmptyDict
    /\ functionsArgLabels = EmptyDict
    /\ symbols = EmptyDict
    /\ symbolsRange = <<>>

\* a local that is an argument, and a local before any enter
ArgScenario ==
    /\ codeData \in { <<Ins("enter", 16), Ins("local", 28), Ins("leave", 16)>>,
                      <<Ins("local", 12), Ins("leave", 16)>> }
    /\ dataSegLength = 0
    /\ functionsArgLabels \in { EmptyDict, 0 :> ("arg1" :> "n") }
    /\ functionsLocalRangeLabels = EmptyDict
    /\ functionsLocalLabels = EmptyDict
    /\ symbols = EmptyDict
    /\ symbolsRange = <<>>
    /\ syscalls = EmptyDict
    /\ functions = EmptyDict
    /\ baseQ3FunctionRevHashes = EmptyDict
    /\ constants = EmptyDict

\* the longest literal pool
MaxLit == 2

\* NUL, a control byte, tab, newline, and the bytes around the printable range
LitBytes == {0, 1, 9, 10, 31, 32, 126, 127}

\* a const whose operand may point into the literal pool, before a leave, a
\* call or a jump, with or without a named constant at its index
LiteralScenario ==
    /\ dataSegLength \in {0, 4}
    /\ \E lit \in CodeSegments(LitBytes, MaxLit) :
          /\ litSegLength = Len(lit)
          /\ litData = PadBytes(lit, LIT_PAD)
    /\ \E q \in {dataSegLength, dataSegLength + 1}, x \in {"leave", "call", "jump"} :
          /\ codeData = <<Ins("enter", 16), Ins("const", q),
                          Ins(x, IF x = "leave" THEN 16 ELSE None)>>
          /\ constants \in { EmptyDict, 1 :> <<"K", q>>, 1 :> <<"K", q + 1>> }
    /\ functionsLocalRangeLabels = EmptyDict
    /\ functionsLocalLabels = EmptyDict
    /\ functionsArgLabels = EmptyDict
    /\ symbols = EmptyDict
    /\ symbolsRange = <<>>
    /\ syscalls = EmptyDict
    /\ functions = EmptyDict
    /\ baseQ3FunctionRevHashes = EmptyDict

\* a const into DATA or past it, before a leave, a call or a jump, where a
\* symbol and a function carry the operand as address, with or without a
\* named constant at the index of the const
ConstantScenario ==
    /\ dataSegLength = 4
    /\ \E q \in {0, 5}, x \in {"leave", "call", "jump"} :
          /\ codeData = <<Ins("enter", 16), Ins("const", q),
                          Ins(x, IF x = "leave" THEN 16 ELSE None)>>
          /\ constants \in { EmptyDict, 1 :> <<"K", q>>, 1 :> <<"K", q + 1>> }
    /\ symbols = (0 :> "s" @@ 5 :> "t")
    /\ functions = (0 :> "f" @@ 5 :> "g")
    /\ functionsLocalRangeLabels = EmptyDict
    /\ functionsLocalLabels = EmptyDict
    /\ functionsArgLabels = EmptyDict
    /\ symbolsRange = <<>>
    /\ syscalls = EmptyDict
    /\ baseQ3FunctionRevHashes = EmptyDict

\* longest code segment of the scenario with unknown opcode bytes
MaxDecode == 3

\* opcode bytes 60 and 255 have no row in the opcode table
DecodeInstrs ==
    { Ins("enter", 16), Ins("leave", 16), [opc |-> 60, parm |-> None],
      [opc |-> 255, parm |-> None] }

\* code with unknown opcode bytes, no annotation
DecodeScenario ==
    /\ codeData \in CodeSegments(DecodeInstrs, MaxDecode)
    /\ dataSegLength = 0
    /\ NoAnnotations

InitDis ==
    /\ \/ /\ \/ LocalRangeScenario
             \/ SymbolRangeScenario
             \/ CallScenario
             \/ ArgScenario
             \/ DecodeScenario
             \/ ConstantScenario
          /\ litSegLength = 0
          /\ litData = PadBytes(<<>>, LIT_PAD)
       \/ LiteralScenario
    /\ dataData = PadBytes(DataImage(dataSegLength), DATA_PAD)
    /\ instructionCount = Len(codeData)
    /\ AnalysisStart
    /\ DisassemblyIdle
    /\ Constructed

NextDis == Step \/ Finish \/ DisBegin \/ DisStep \/ DisEnd

SpecDis == InitDis /\ [][NextDis]_vars

-----------------------------------------------------------------------------
(* What a range map says, read off the map without the scan *)

\* an entry is <<k, j>>: the j-th range registered at the k-th address
EntriesOf(map) ==
    UNION { { <<k, j>> : j \in DOMAIN map[k].ranges } : k \in DOMAIN map }

StartOf(map, e) == map[e[1]].addr
SizeOf(map, e) == map[e[1]].ranges[e[2]][1]
NameOf(map, e) == map[e[1]].ranges[e[2]][2]

StartingAt(q, map) == { e \in EntriesOf(map) : StartOf(map, e) = q }

Covering(q, map) ==
    { e \in EntriesOf(map) : StartOf(map, e) <= q /\ q < StartOf(map, e) + SizeOf(map, e) }

Closest(q, map) ==
    { e \in Covering(q, map) :
        \A d \in Covering(q, map) : q - StartOf(map, e) <= q - StartOf(map, d) }

SmallestClosest(q, map) ==
    { e \in Closest(q, map) : \A d \in Closest(q, map) : SizeOf(map, e) <= SizeOf(map, d) }

\* the names of the entries of E, in the order of the file, with ", " between
RECURSIVE NamesJoined(_, _)
NamesJoined(map, E) ==
    LET first == CHOOSE e \in E : \A d \in E :
                    e[1] < d[1] \/ (e[1] = d[1] /\ e[2] <= d[2])
        rest == E \ {first}
    IN  IF rest = {} THEN NameOf(map, first)
        ELSE NameOf(map, first) \o ", " \o NamesJoined(map, rest)

\* the comments the lookup of q may end with
LookupResults(q, map) ==
    IF StartingAt(q, map) # {} THEN { NamesJoined(map, StartingAt(q, map)) }
    ELSE IF Covering(q, map) = {} THEN { None }
    ELSE { NameOf(map, e) \o " + 0x" \o HexStr(q - StartOf(map, e)) :
             e \in SmallestClosest(q, map) }

\* the instructions the disassembly has given a comment (or none) so far
Commented == { i \in 0..(instructionCount - 1) : i + 1 \in DOMAIN comments }

CommentAt(i) == comments[i + 1]

\* the mnemonic of the opcode byte after instruction i (zero padding: undef)
NextNameAt(i) == IF i + 1 < instructionCount THEN OpName(OpcAt(i + 1)) ELSE "undef"

\* a local below the arguments, in a function
IsLocalVariable(i) ==
    /\ IsAt(i, "local")
    /\ EnclosingStart(i) >= 0
    /\ ParmAt(i) - ParmAt(EnclosingStart(i)) - 8 < 0

\* the three places the lookup is made from
LocalUse(i) ==
    /\ IsLocalVariable(i)
    /\ EnclosingStart(i) \notin DOMAIN functionsLocalLabels
    /\ EnclosingStart(i) \in DOMAIN functionsLocalRangeLabels

SymbolUse(i) ==
    /\ IsAt(i, "const")
    /\ i \notin DOMAIN constants
    /\ NextNameAt(i) \notin {"call", "jump"}
    /\ ParmAt(i) \notin DOMAIN symbols

DataUse(i) == SymbolUse(i) /\ 0 <= ParmAt(i) /\ ParmAt(i) < dataSegLength

BssUse(i) == SymbolUse(i) /\ ParmAt(i) >= dataSegLength + litSegLength

(* C8 *)

\* C8: wherever the range lookup is made (a function's local ranges, the symbol
\* ranges for a DATA address, the symbol ranges for a BSS address), the
\* comment is: the names of all entries starting at q joined by ", " if there
\* are any; otherwise name + " + 0x" + hex(q - start) of a covering entry
\* with the least q - start and, among those, the least size; and no comment
\* if no entry covers q.
C8_RangeLookup ==
    \A i \in Commented :
        /\ LocalUse(i) =>
              CommentAt(i) \in LookupResults(ParmAt(i),
                                  functionsLocalRangeLabels[EnclosingStart(i)])
        /\ DataUse(i) => CommentAt(i) \in LookupResults(ParmAt(i), symbolsRange)
        /\ BssUse(i) => CommentAt(i) \in LookupResults(ParmAt(i), symbolsRange)

\* the lookup had to break a tie: no entry starts at q, and the closest
\* covering entries differ in size
TieBroken(q, map) ==
    /\ StartingAt(q, map) = {}
    /\ SmallestClosest(q, map) # Closest(q, map)

\* a finished listing in which the lookup of a DATA address has passed over
\* a covering entry farther away and broken such a tie
C8_Witness ==
    /\ phase = "done"
    /\ \E i \in Commented :
          /\ DataUse(i)
          /\ CommentAt(i) # None
          /\ TieBroken(ParmAt(i), symbolsRange)
          /\ Closest(ParmAt(i), symbolsRange) # Covering(ParmAt(i), symbolsRange)

\* the range map of a function: empty if the file gave it no range
RangeLabelsOf(f) ==
    IF f \in DOMAIN functionsLocalRangeLabels THEN functionsLocalRangeLabels[f]
    ELSE <<>>

(* C9 *)

\* C9: a local below the arguments of function f is commented with the exact
\* label of its offset if f has one for it; in every other case, also when f
\* has exact labels for other offsets only, with the result of the range
\* lookup over the local ranges of f.
C9_LocalFallsThroughToRanges ==
    \A i \in Commented :
        IsLocalVariable(i) =>
            LET f == EnclosingStart(i)
                q == ParmAt(i)
            IN  IF f \in DOMAIN functionsLocalLabels /\ q \in DOMAIN functionsLocalLabels[f]
                THEN CommentAt(i) = functionsLocalLabels[f][q]
                ELSE CommentAt(i) \in LookupResults(q, RangeLabelsOf(f))

(* C10 *)

\* C10: a const that is not a named constant and is followed by call is commented
\* with the syscall name if its operand is a negative key of syscalls, else
\* the function name if it is a key of functions, else the names guessed
\* from the base hashes if it is a key of functionHashes whose hash is
\* known, and in every remaining case, also when it is no key of
\* functionHashes, with the marker ":unknown function:".
C10_CallTargetNamed ==
    \A i \in Commented :
        (IsAt(i, "const") /\ i \notin DOMAIN constants /\ NextNameAt(i) = "call") =>
            LET p == ParmAt(i)
            IN  CommentAt(i) =
                  IF p < 0 /\ p \in DOMAIN syscalls THEN syscalls[p] \o "()"
                  ELSE IF p \in DOMAIN functions THEN functions[p] \o "()"
                  ELSE IF p \in DOMAIN functionHashes
                          /\ functionHashes[p] \in DOMAIN baseQ3FunctionRevHashes
                  THEN GuessedNames(baseQ3FunctionRevHashes[functionHashes[p]])
                  ELSE ":unknown function:"

-----------------------------------------------------------------------------
(* What the literal pool says, read off litData without the scan *)

AboveAt(i) == above[i + 1]

\* a const whose operand points into the literal pool
LitUse(i) ==
    /\ IsAt(i, "const")
    /\ i \notin DOMAIN constants
    /\ ParmAt(i) >= dataSegLength /\ ParmAt(i) < dataSegLength + litSegLength
    /\ NextNameAt(i) \notin {"call", "jump"}

\* the bytes of the pool from offset start up to, not including, the first NUL
LitBytesFrom(start) ==
    LET nul == CHOOSE k \in (start + 1)..Len(litData) :
                  /\ litData[k] = 0
                  /\ \A j \in (start + 1)..(k - 1) : litData[j] # 0
    IN  SubSeq(litData, start + 1, nul - 1)

HexCode(d) == IF d < 10 THEN 48 + d ELSE 87 + d

\* \xHH: two hexadecimal digits
EscapedTwoDigits(c) == <<92, 120, HexCode(c \div 16), HexCode(c % 16)>>

\* \x and the hexadecimal digits of c without leading zero
EscapedNoPadding(c) ==
    IF c < 16 THEN <<92, 120, HexCode(c)>> ELSE EscapedTwoDigits(c)

\* the rendering the claim states: 32 < c < 127 unchanged, the rest \xHH
RenderedAsStated(c) ==
    IF c = 10 THEN <<92, 110>>
    ELSE IF c = 9 THEN <<92, 116>>
    ELSE IF 32 < c /\ c < 127 THEN <<c>>
    ELSE EscapedTwoDigits(c)

\* the rendering as amended: 31 < c < 127 unchanged, the rest \x and the
\* digits without padding
RenderedAsAmended(c) ==
    IF c = 10 THEN <<92, 110>>
    ELSE IF c = 9 THEN <<92, 116>>
    ELSE IF 31 < c /\ c < 127 THEN <<c>>
    ELSE EscapedNoPadding(c)

RECURSIVE StatedString(_)
StatedString(bs) ==
    IF bs = <<>> THEN <<>> ELSE RenderedAsStated(Head(bs)) \o StatedString(Tail(bs))

RECURSIVE AmendedString(_)
AmendedString(bs) ==
    IF bs = <<>> THEN <<>> ELSE RenderedAsAmended(Head(bs)) \o AmendedString(Tail(bs))

(* C11 *)

\* C11 as stated: the string written above a const that points into the
\* literal pool renders the bytes up to the first NUL with \n for 10, \t for
\* 9, every byte c with 32 < c < 127 unchanged and every other byte as \xHH
C11_LiteralAsStated ==
    \A i \in Commented :
        LitUse(i) =>
            AboveAt(i) = [kind |-> "lit",
                          bytes |-> StatedString(LitBytesFrom(ParmAt(i) - dataSegLength))]

\* C11 as amended: the same, with every byte c with 31 < c < 127 (the space
\* included) unchanged and every other byte as \x followed by its
\* hexadecimal digits without zero padding
C11_LiteralString ==
    \A i \in Commented :
        LitUse(i) =>
            AboveAt(i) = [kind |-> "lit",
                          bytes |-> AmendedString(LitBytesFrom(ParmAt(i) - dataSegLength))]

\* a finished listing with a literal that holds a space and a control byte
C11_Witness ==
    /\ phase = "done"
    /\ \E i \in Commented :
          /\ LitUse(i)
          /\ LitBytesFrom(ParmAt(i) - dataSegLength) = <<32, 1>>
          /\ AboveAt(i).bytes = <<32, 92, 120, 49>>

-----------------------------------------------------------------------------
(* The magic test of __init__ *)

\* the first word of the image file
FirstWord == read_int(file, 0)

\* C12: once __init__ has read the first word of a file whose first word is
\* not the magic, it has raised InvalidQvmFile, and it has done nothing else:
\* only those four bytes were read, the object has no attribute but the open
\* file (no header field, no segment buffer, no annotation map, no analysis
\* map), and no later step of the constructor is taken.
C12_BadMagicRejected ==
    (phase # "open" /\ FirstWord # magic) =>
        /\ phase = "raised"
        /\ raised = "InvalidQvmFile"
        /\ fpos = INT_SIZE
        /\ attrs = {"_file"}
        /\ header = NoHeader
        /\ instructionCount = 0
        /\ codeBytes = <<>> /\ dataData = <<>> /\ litData = <<>>
        /\ NoAnnotations
        /\ functionSizes = EmptyDict /\ functionHashes = EmptyDict
        /\ jumpPoints = EmptyDict /\ callPoints = EmptyDict
        /\ ins = -1

\* a file with a wrong first word and a non-empty code segment was rejected
C12_Witness ==
    /\ phase = "raised"
    /\ FirstWord = magic + 1
    /\ Len(file) > 8 * INT_SIZE

-----------------------------------------------------------------------------
(* Header fields against the size of the file *)

\* a segment's offset plus its length reaches past the end of the file
ReachesPastEnd ==
    \/ header.codeSegOffset + header.codeSegLength > Len(file)
    \/ header.dataSegOffset + dataSegLength > Len(file)
    \/ header.litSegOffset + litSegLength > Len(file)

\* C13: once __init__ has loaded the segments of a file with the right magic
\* whose CODE, DATA or LIT offset plus length reaches past the end of the
\* file, it has raised InvalidQvmFile: it does not go on to the maps and the
\* analysis with a shorter buffer.
C13_InconsistentHeaderRejected ==
    (phase \in {"maps", "analysis", "done", "error"} /\ ReachesPastEnd) =>
        raised = "InvalidQvmFile"

-----------------------------------------------------------------------------
(* Unknown opcode bytes *)

\* the instructions whose opcode byte is 60 or more
UnknownAt == { i \in 0..(instructionCount - 1) : OpcAt(i) >= 60 }

FirstUnknown == CHOOSE i \in UnknownAt : \A j \in UnknownAt : i <= j

\* C14: if one of the first instructionCount instructions has an opcode byte
\* of 60 or more, the analysis never walks past the first such instruction,
\* it is in error exactly when it has reached that instruction, it never
\* completes, and the disassembly pass never starts.
C14_UnknownOpcodeStops ==
    UnknownAt # {} =>
        /\ ins <= FirstUnknown
        /\ (ins = FirstUnknown <=> phase = "error")
        /\ phase \in {"analysis", "error"}
        /\ count = -1
        /\ comments = <<>>

\* the analysis stopped at an unknown opcode byte that follows a function
C14_Witness ==
    /\ phase = "error"
    /\ ins = 2
    /\ OpcAt(0) = OpcOf("enter")
    /\ OpcAt(2) = 255

-----------------------------------------------------------------------------
(* comments.dat (load_address_info, lines 412-497).  A line is its text     *)
(* without the newline that ends it; every line of the file ends with one. *)

\* line.split(";")[0].split() for the lines used here
split(line) ==
    CASE line = "10 before 2 1" -> <<"10", "before", "2", "1">>
      [] line = "10 before" -> <<"10", "before">>
      [] line = "10 before x" -> <<"10", "before", "x">>
      [] line = "10 after 0 1" -> <<"10", "after", "0", "1">>
      [] line = "10 after" -> <<"10", "after">>
      [] line = "d 10 before 1" -> <<"d", "10", "before", "1">>
      [] line = "d 10 before" -> <<"d", "10", "before">>
      [] line = "10 inline foo ; x" -> <<"10", "inline", "foo">>
      [] line = "10 bogus" -> <<"10", "bogus">>
      [] line = "foo" -> <<"foo">>
      [] line = "bar" -> <<"bar">>
      [] line = "baz" -> <<"baz">>
      [] line = "<<<" -> <<"<<<">>

\* the digits of a numeral; <<>> for a word that is none
Digits(w) ==
    CASE w = "0" -> <<0>>
      [] w = "1" -> <<1>>
      [] w = "2" -> <<2>>
      [] w = "10" -> <<1, 0>>
      [] OTHER -> <<>>

ValueError == <<>>

RECURSIVE PositionalValue(_, _)
PositionalValue(d, base) ==
    IF d = <<>> THEN 0
    ELSE PositionalValue(SubSeq(d, 1, Len(d) - 1), base) * base + d[Len(d)]

\* int(s, base): <<value>>, or ValueError
atoi(w, base) ==
    IF Digits(w) = <<>> \/ \E i \in DOMAIN Digits(w) : Digits(w)[i] >= base
    THEN ValueError
    ELSE <<PositionalValue(Digits(w), base)>>

\* comment = line[line.find(words[2]):].rstrip(), for the inline line used here
InlineComment(line) == "foo"

\* the map a before, after or inline record goes to
MapName(dataComment, commentType) ==
    IF dataComment
    THEN CASE commentType = "before" -> "dataCommentsBefore"
           [] commentType = "after" -> "dataCommentsAfter"
           [] commentType = "inline" -> "dataCommentsInline"
    ELSE CASE commentType = "before" -> "commentsBefore"
           [] commentType = "after" -> "commentsAfter"
           [] commentType = "inline" -> "commentsInline"

SpacingName(dataComment, commentType) ==
    IF dataComment
    THEN (IF commentType = "before" THEN "dataCommentsBeforeSpacing"
          ELSE "dataCommentsAfterSpacing")
    ELSE (IF commentType = "before" THEN "commentsBeforeSpacing"
          ELSE "commentsAfterSpacing")

\* lines 455-465: the spacing is written only when one of the values is positive
StoreSpacing(store, dataComment, commentType, codeAddr, spaceBefore, spaceAfter) ==
    IF spaceBefore > 0 \/ spaceAfter > 0
    THEN [store EXCEPT ![SpacingName(dataComment, commentType)] =
              DictPut(@, codeAddr, <<spaceBefore, spaceAfter>>)]
    ELSE store

\* lines 478-493: the index of the first line from start on that is <<<, or
\* the number of lines when there is none
BlockEnd(start) ==
    CHOOSE e \in start..Len(clines) :
        /\ e = Len(clines) \/ clines[e + 1] = "<<<"
        /\ \A j \in start..(e - 1) : clines[j + 1] # "<<<"

\* lines 466-493: the list starts empty and takes every line up to the end
StoreLines(store, dataComment, commentType, codeAddr, start) ==
    [store EXCEPT ![MapName(dataComment, commentType)] =
         DictPut(@, codeAddr, SubSeq(clines, start + 1, BlockEnd(start)))]

\* one iteration of the loop over the lines (lines 418-497); the lines of a
\* block are consumed by the same iteration
LoadLine ==
    /\ phase = "comments"
    /\ lineCount < Len(clines)
    /\ LET line == clines[lineCount + 1]
           split0 == split(line)
           dataComment == Len(split0) > 1 /\ split0[1] = "d"
           words == IF dataComment THEN Tail(split0) ELSE split0
       IN  IF ~(Len(words) > 1)
           THEN /\ lineCount' = lineCount + 1
                /\ UNCHANGED <<commentStore, phase>>
           ELSE LET codeAddr == atoi(words[1], 16)
                    commentType == words[2]
                    spaceBefore == IF Len(words) > 2 THEN atoi(words[3], 10) ELSE <<0>>
                    spaceAfter == IF Len(words) > 3 THEN atoi(words[4], 10) ELSE <<0>>
                IN  IF codeAddr = ValueError
                    THEN /\ phase' = "exit"
                         /\ UNCHANGED <<commentStore, lineCount>>
                    ELSE IF commentType = "inline"
                    THEN /\ commentStore' =
                              IF Len(words) > 2
                              THEN [commentStore EXCEPT ![MapName(dataComment, "inline")] =
                                        DictPut(@, codeAddr[1], InlineComment(line))]
                              ELSE commentStore
                         /\ lineCount' = lineCount + 1
                         /\ UNCHANGED phase
                    ELSE IF commentType \in {"before", "after"}
                    THEN IF spaceBefore = ValueError \/ spaceAfter = ValueError
                         THEN /\ phase' = "exit"
                              /\ UNCHANGED <<commentStore, lineCount>>
                         ELSE /\ commentStore' =
                                   StoreLines(StoreSpacing(commentStore, dataComment,
                                                  commentType, codeAddr[1],
                                                  spaceBefore[1], spaceAfter[1]),
                                              dataComment, commentType, codeAddr[1],
                                              lineCount + 1)
                              /\ lineCount' = BlockEnd(lineCount + 1) + 1
                              /\ UNCHANGED phase
                    ELSE /\ phase' = "exit"
                         /\ UNCHANGED <<commentStore, lineCount>>
    /\ UNCHANGED <<file, fpos, raised, attrs, header, codeBytes, clines, codeData,
                   instructionCount, anaVars, mapVars, hashVars, annVars, disVars>>

\* the loop is over: load_address_info returns
LoadEnd ==
    /\ phase = "comments"
    /\ ~(lineCount < Len(clines))
    /\ phase' = "loaded"
    /\ UNCHANGED <<loadVars, codeData, instructionCount, anaVars, mapVars, hashVars,
                   annVars, disVars>>

\* most fragments of a comments.dat
MaxBlocks == 3

\* the pieces comments.dat is made of: blocks with and without spacing, for
\* code and for data, an unterminated block, and single lines
CommentFragments ==
    { <<"10 before 2 1", "foo", "<<<">>,
      <<"10 before", "bar", "baz", "<<<">>,
      <<"10 after 0 1", "foo", "<<<">>,
      <<"10 after", "<<<">>,
      <<"d 10 before 1", "foo", "<<<">>,
      <<"d 10 before", "bar", "<<<">>,
      <<"10 before", "foo">>,
      <<"10 before x", "<<<">>,
      <<"10 inline foo ; x">>,
      <<"10 bogus">>,
      <<"foo">> }

CommentFiles == { Flatten(fs) : fs \in CodeSegments(CommentFragments, MaxBlocks) }

\* load_address_info is about to read comments.dat into an object without code
InitComments ==
    /\ clines \in CommentFiles
    /\ lineCount = 0
    /\ commentStore = EmptyStore
    /\ phase = "comments"
    /\ codeData = <<>>
    /\ instructionCount = 0
    /\ dataSegLength = 0
    /\ litSegLength = 0
    /\ NoSegments
    /\ file = ImageFile(magic, 0, 0, 0, 0, <<>>)
    /\ fpos = Len(file)
    /\ raised = "none"
    /\ attrs = AllAttrs
    /\ header = HeaderFrom(file, INT_SIZE)
    /\ codeBytes = PadBytes(<<>>, CODE_PAD)
    /\ AnalysisLocals
    /\ NoAnnotations
    /\ DisassemblyIdle

NextComments == LoadLine \/ LoadEnd

SpecComments == InitComments /\ [][NextComments]_vars

-----------------------------------------------------------------------------
(* Comment blocks *)

\* the words of line i, without a leading d
RecordWords(i) ==
    LET w == split(clines[i + 1])
    IN  IF Len(w) > 1 /\ w[1] = "d" THEN Tail(w) ELSE w

IsDataRecord(i) == Len(split(clines[i + 1])) > 1 /\ split(clines[i + 1])[1] = "d"

\* line i is the header of a before or after block that gives no spacing value
PlainHeaderAt(i) ==
    /\ Len(RecordWords(i)) = 2
    /\ RecordWords(i)[1] = "10"
    /\ RecordWords(i)[2] \in {"before", "after"}

\* line i is the header of a before or after block, with or without spacing
HeaderAt(i) ==
    /\ Len(RecordWords(i)) \in 2..4
    /\ RecordWords(i)[1] = "10"
    /\ RecordWords(i)[2] \in {"before", "after"}
    /\ \A k \in 3..Len(RecordWords(i)) : RecordWords(i)[k] \in {"0", "1", "2"}

\* the <<< lines after line i
TerminatorsAfter(i) == { j \in (i + 1)..(Len(clines) - 1) : clines[j + 1] = "<<<" }

\* the lines and the spacing a block of the store is printed with (lines
\* 521-529): an address without a spacing entry gets no blank line
StoredLines(store, i) == store[MapName(IsDataRecord(i), RecordWords(i)[2])]

StoredSpacing(store, i) ==
    LET m == store[SpacingName(IsDataRecord(i), RecordWords(i)[2])]
    IN  IF 16 \in DOMAIN m THEN m[16] ELSE <<0, 0>>

\* C15: when the loader reads the header of a before or after block without
\* spacing values that is followed by n comment lines and a <<< line, the
\* block is stored for its address as exactly those n lines, in file order,
\* with spacing (0, 0), whatever the maps held for the address before.
C15_BlockWithoutSpacing ==
    [][ ( /\ phase = "comments"
          /\ lineCount < Len(clines)
          /\ PlainHeaderAt(lineCount)
          /\ TerminatorsAfter(lineCount) # {} )
        => LET t == CHOOSE j \in TerminatorsAfter(lineCount) :
                        \A k \in TerminatorsAfter(lineCount) : j <= k
           IN  /\ 16 \in DOMAIN StoredLines(commentStore', lineCount)
               /\ StoredLines(commentStore', lineCount)[16]
                      = [k \in 1..(t - lineCount - 1) |-> clines[lineCount + 1 + k]]
               /\ StoredSpacing(commentStore', lineCount) = <<0, 0>> ]_vars

\* C16: when the loader reads the header of a before or after block and no
\* <<< line follows it in the file, loading terminates (error_exit) and the
\* annotation store is left as it was.
C16_UnterminatedBlockFatal ==
    [][ ( /\ phase = "comments"
          /\ lineCount < Len(clines)
          /\ HeaderAt(lineCount)
          /\ TerminatorsAfter(lineCount) = {} )
        => /\ phase' = "exit"
           /\ commentStore' = commentStore ]_vars

-----------------------------------------------------------------------------
(* The structural hash of a function *)

\* what instruction i adds to the accumulator: its opcode in decimal, and the
\* immediate of a local and of a const with a negative immediate
Contribution(i) ==
    DecStr(OpcAt(i)) \o
        (IF IsAt(i, "local") \/ (IsAt(i, "const") /\ ParmAt(i) < 0)
         THEN DecStr(ParmAt(i)) ELSE <<>>)

\* the last instruction of the function that starts at the enter f
LastOf(f) == Max({f} \cup BodyOf(f))

\* the accumulator of the instructions f..LastOf(f)
OwnAccumulator(f) ==
    LET acc[i \in f..LastOf(f)] ==
            IF i = f THEN Contribution(i) ELSE acc[i - 1] \o Contribution(i)
    IN  acc[LastOf(f)]

\* C17: after the analysis the hash recorded for the function at an enter is
\* the hash of the accumulator of that function's own instructions, from its
\* enter up to (not including) the next enter.
C17_HashOfOwnInstructions ==
    phase = "done" =>
        \A f \in EnterIndices :
            /\ f \in DOMAIN functionHashes
            /\ functionHashes[f] = hash32BitSigned(OwnAccumulator(f))

-----------------------------------------------------------------------------
(* Jump points: the analysis on code made of jumps and branches *)

\* longest code segment of the jump analysis
MaxJump == 4

\* targets inside the code, at and past instructionCount, and negative
JumpInstrs ==
    { Ins("enter", 16), Ins("const", 1), Ins("const", 9), Ins("jump", None),
      Ins("eq", 1), Ins("eq", -2), Ins("gef", 9) }

InitJump ==
    /\ codeData \in CodeSegments(JumpInstrs, MaxJump)
    /\ instructionCount = Len(codeData)
    /\ dataSegLength = 0
    /\ litSegLength = 0
    /\ NoSegments
    /\ AnalysisStart
    /\ NoAnnotations
    /\ DisassemblyIdle
    /\ Constructed

SpecJump == InitJump /\ [][Next]_vars

\* the instructions among the first n that jump to T: the branches 11..26
\* with immediate T, and the jumps that directly follow  const T
JumpSources(T, n) ==
    { i \in 0..(n - 1) :
        \/ OpcAt(i) \in 11..26 /\ ParmAt(i) = T
        \/ OpcAt(i) = 10 /\ i > 0 /\ OpcAt(i - 1) = 8 /\ ParmAt(i - 1) = T }

JumpTargets(n) ==
    { codeData[i + 1].parm : i \in { j \in 0..(n - 1) : OpcAt(j) \in {8} \cup 11..26 } }

\* C18: at every point of the walk, jump_points[T] lists exactly the branches
\* 11..26 with immediate T and the jumps that directly follow const T, each
\* source once, in increasing order; the targets are the immediates as they
\* stand (negative, or at and past instructionCount), and no other
\* instruction adds a key or an entry.
C18_JumpPoints ==
    /\ DOMAIN jumpPoints = { T \in JumpTargets(Walked) : JumpSources(T, Walked) # {} }
    /\ \A T \in DOMAIN jumpPoints : jumpPoints[T] = Ascending(JumpSources(T, Walked))

\* a target past the code reached by a branch and by a jump after const, and
\* a negative target
C18_Witness ==
    /\ phase = "done"
    /\ 9 \in DOMAIN jumpPoints
    /\ Len(jumpPoints[9]) = 2
    /\ 9 >= instructionCount
    /\ -2 \in DOMAIN jumpPoints
    /\ \E i \in 0..(instructionCount - 1) : OpcAt(i) = 10 /\ i \in JumpSources(9, instructionCount)

-----------------------------------------------------------------------------
(* Named constants *)

\* a const at an index that is a key of constants
NamedConst(i) == IsAt(i, "const") /\ i \in DOMAIN constants

\* C19: for every const disassembled so far whose index is a key of
\* constants, the comment is the constant's name when the immediate equals
\* the recorded value and the fixed warning otherwise, and no line (literal
\* string or DATA dump) is written above it, whatever the immediate and the
\* next opcode are.
C19_ConstantsDecide ==
    \A i \in Commented :
        NamedConst(i) =>
            /\ CommentAt(i) = IF ParmAt(i) = constants[i][2] THEN constants[i][1]
                              ELSE "FIXME constant val != to code val"
            /\ AboveAt(i).kind = "none"

\* a named constant on a const whose operand is a DATA address that carries
\* a symbol, before an opcode that is neither call nor jump
C19_Witness ==
    /\ phase = "done"
    /\ 1 \in Commented
    /\ NamedConst(1)
    /\ ParmAt(1) = 0
    /\ dataSegLength = 4
    /\ 0 \in DOMAIN symbols
    /\ NextNameAt(1) = "leave"
    /\ CommentAt(1) = "K"

-----------------------------------------------------------------------------
(* The dumps of DATA and LIT (print_data_disassembly, print_lit_disassembly) *)

\* the offsets print_data_disassembly dumps: 0, 4, 8, ... below dataSegLength
DumpOffsets == { n \in 0..(dataSegLength - 1) : n % 4 = 0 }

\* the line of offset n: the four bytes read and the index of the last one
DataDumpLine(n) ==
    [offset |-> n, last |-> n + 3,
     bytes |-> [k \in 1..4 |-> dataData[n + k]]]

\* self.dataData[count + 3] past the buffer raises IndexError
DataDumpError == \E n \in DumpOffsets : ~(n + 3 < Len(dataData))

\* the whole of print_data_disassembly
DataDump ==
    /\ phase = "done"
    /\ IF DataDumpError
       THEN /\ phase' = "error"
            /\ dumps' = dumps
       ELSE /\ phase' = "done"
            /\ dumps' = [dumps EXCEPT !.data =
                            [k \in 1..Cardinality(DumpOffsets) |-> DataDumpLine(4 * (k - 1))],
                                      !.ran = @ \cup {"data"}]
    /\ UNCHANGED <<loadVars, codeData, instructionCount, anaVars, mapVars, hashVars, annVars,
                   count, dpos, currentFuncAddr, stackAdjust, comments, above>>

\* the scan of one line of print_lit_disassembly ends the line at byte c of
\* index j (lines 870-876): c is no newline, no tab and not printable, and
\* it is NUL or lies at or past litSegLength
EndsLine(j) ==
    /\ litData[j + 1] \notin {10, 9}
    /\ ~Printable(litData[j + 1])
    /\ (litData[j + 1] = 0 \/ j >= litSegLength)

\* the index at which the scan from offset ends, or Len(litData), where the
\* read raises IndexError
LitLineEnd(offset) ==
    CHOOSE e \in offset..Len(litData) :
        /\ e = Len(litData) \/ EndsLine(e)
        /\ \A j \in offset..(e - 1) : ~EndsLine(j)

\* the text of the line that starts at offset: quoted runs (34 is the quote)
\* broken by  0x..  for the bytes that are not printable
LitLineText(offset) ==
    LET e == LitLineEnd(offset)
        scan[i \in offset..e] ==
            IF i = offset THEN [out |-> <<>>, chars |-> <<>>]
            ELSE LET c == litData[i]
                     prev == scan[i - 1]
                 IN  IF c = 10 THEN [prev EXCEPT !.chars = @ \o <<92, 110>>]
                     ELSE IF c = 9 THEN [prev EXCEPT !.chars = @ \o <<92, 116>>]
                     ELSE IF Printable(c) THEN [prev EXCEPT !.chars = Append(@, c)]
                     ELSE [out |-> prev.out
                                     \o (IF Len(prev.chars) > 0
                                         THEN <<34>> \o prev.chars \o <<34, 32>> ELSE <<>>)
                                     \o <<32, 48, 120>> \o HexCodes(c) \o <<32, 32>>,
                           chars |-> <<>>]
    IN  scan[e].out \o <<34>> \o scan[e].chars \o <<34>>

\* the lines of print_lit_disassembly from offset on: each line starts after
\* the byte that ended the line before
RECURSIVE LitDumpLines(_)
LitDumpLines(offset) ==
    IF ~(offset < litSegLength) THEN <<>>
    ELSE <<[offset |-> offset, last |-> LitLineEnd(offset), text |-> LitLineText(offset)]>>
             \o LitDumpLines(LitLineEnd(offset) + 1)

RECURSIVE LitDumpError(_)
LitDumpError(offset) ==
    /\ offset < litSegLength
    /\ \/ LitLineEnd(offset) = Len(litData)
       \/ LitDumpError(LitLineEnd(offset) + 1)

\* the whole of print_lit_disassembly
LitDump ==
    /\ phase = "done"
    /\ IF LitDumpError(0)
       THEN /\ phase' = "error"
            /\ dumps' = dumps
       ELSE /\ phase' = "done"
            /\ dumps' = [dumps EXCEPT !.lit = LitDumpLines(0), !.ran = @ \cup {"lit"}]
    /\ UNCHANGED <<loadVars, codeData, instructionCount, anaVars, mapVars, hashVars, annVars,
                   count, dpos, currentFuncAddr, stackAdjust, comments, above>>

\* longest literal pool of the images that are dumped
MaxPool == 2

\* NUL, tab, a letter and a byte that is not printable
PoolBytes == {0, 9, 65, 200}

\* an image read in full: DATA of 0 or 5 bytes, a literal pool, and a function
\* whose const (the last instruction, or followed by leave) points at the
\* start or the end of DATA or into the pool
InitRead ==
    /\ dataSegLength \in {0, 5}
    /\ \E lit \in CodeSegments(PoolBytes, MaxPool) :
          /\ litSegLength = Len(lit)
          /\ litData = PadBytes(lit, LIT_PAD)
    /\ \E q \in {0, dataSegLength - 1, dataSegLength, dataSegLength + 1} :
          codeData \in { <<Ins("enter", 16), Ins("const", q)>>,
                         <<Ins("enter", 16), Ins("const", q), Ins("leave", 16)>> }
    /\ dataData = PadBytes(DataImage(dataSegLength), DATA_PAD)
    /\ instructionCount = Len(codeData)
    /\ NoAnnotations
    /\ AnalysisStart
    /\ DisassemblyIdle
    /\ Constructed

NextRead == Step \/ Finish \/ DisBegin \/ DisStep \/ DisEnd \/ DataDump \/ LitDump

SpecRead == InitRead /\ [][NextRead]_vars

-----------------------------------------------------------------------------
(* Reads of the padded buffers *)

\* the lengths of the segments as the header gives them
code_len == header.codeSegLength
data_len == dataSegLength
lit_len == litSegLength

\* the instruction the disassembly has just gone through
AtConst == phase \in {"disassembly", "error"} /\ count >= 0 /\ IsAt(count, "const")

\* C20: for an image read in full, no pass fails on a read, and every index
\* read lies in the padded buffer: after a const the peek at the next opcode
\* byte is at an index below code_len + 5; a const whose operand lies in DATA
\* reads four bytes that end below data_len + 4, as does every line of the
\* DATA dump; the scan of a literal from an operand in the pool, and that of
\* every line of the LIT dump, stops at an index of at most lit_len.
C20_ReadsInsidePadding ==
    /\ phase # "error"
    /\ AtConst => dpos < code_len + 5
    /\ \A i \in Commented :
          /\ (IsAt(i, "const") /\ 0 <= ParmAt(i) /\ ParmAt(i) < data_len) =>
                /\ AboveAt(i).kind = "data"
                /\ AboveAt(i).bytes = [k \in 1..4 |-> dataData[ParmAt(i) + k]]
                /\ ParmAt(i) + 3 < data_len + 4
          /\ (IsAt(i, "const") /\ data_len <= ParmAt(i) /\ ParmAt(i) < data_len + lit_len) =>
                /\ AboveAt(i).kind = "lit"
                /\ LitScanEnd(ParmAt(i) - data_len) <= lit_len
    /\ \A k \in DOMAIN dumps.data : dumps.data[k].last < data_len + 4
    /\ \A k \in DOMAIN dumps.lit : dumps.lit[k].last <= lit_len

\* both dumps have run on a DATA segment that is no multiple of four bytes
\* and a pool without a final NUL, and the disassembly has gone through a
\* const that is the last instruction and points at the last byte of DATA
C20_Witness ==
    /\ phase = "disassembly"
    /\ AtConst
    /\ count = instructionCount - 1
    /\ dpos = code_len
    /\ ParmAt(count) = data_len - 1
    /\ data_len = 5
    /\ Len(dumps.data) = 2
    /\ lit_len = 2
    /\ litData[2] # 0
    /\ Len(dumps.lit) = 1
    /\ dumps.lit[1].last = lit_len

-----------------------------------------------------------------------------
(* The table of hashes (print_function_hashes), and the print calls in any
   order *)

\* the row of the function at addr: its size, its hash, and the names the
\* base table gives for that hash
HashDumpLine(addr) ==
    [addr |-> addr, size |-> functionSizes[addr], hash |-> functionHashes[addr],
     names |-> IF functionHashes[addr] \in DOMAIN baseQ3FunctionRevHashes
               THEN baseQ3FunctionRevHashes[functionHashes[addr]]
               ELSE <<>>]

\* self.functionSizes[addr] of an address that is no key raises KeyError
HashDumpError == \E addr \in DOMAIN functionHashes : addr \notin DOMAIN functionSizes

\* the whole of print_function_hashes: one row per key of functionHashes, in
\* increasing order
HashDump ==
    /\ phase = "done"
    /\ IF HashDumpError
       THEN /\ phase' = "error"
            /\ dumps' = dumps
       ELSE /\ phase' = "done"
            /\ dumps' = [dumps EXCEPT
                            !.hashes = LET ks == Ascending(DOMAIN functionHashes)
                                       IN  [k \in DOMAIN ks |-> HashDumpLine(ks[k])],
                            !.ran = @ \cup {"hashes"}]
    /\ UNCHANGED <<loadVars, codeData, instructionCount, anaVars, mapVars, hashVars, annVars,
                   count, dpos, currentFuncAddr, stackAdjust, comments, above>>

\* the literal pools of the images that are printed
PrintPools == { <<>>, <<65>>, <<65, 0>>, <<200, 65>> }

\* an image read in full: DATA of 0 or 5 bytes, a literal pool, one or two
\* functions with a const before a call or a leave, and a base table that
\* is empty or has the hash recorded for the first of two functions ("843":
\* const, leave and the enter that follows)
InitPrint ==
    /\ dataSegLength \in {0, 5}
    /\ \E lit \in PrintPools :
          /\ litSegLength = Len(lit)
          /\ litData = PadBytes(lit, LIT_PAD)
    /\ \E q \in {0, 5}, x \in {Ins("call", None), Ins("leave", 16)} :
          codeData \in { <<Ins("enter", 16), Ins("const", q), x>>,
                         <<Ins("enter", 16), Ins("const", q), x,
                           Ins("enter", 16), Ins("leave", 16)>> }
    /\ dataData = PadBytes(DataImage(dataSegLength), DATA_PAD)
    /\ instructionCount = Len(codeData)
    /\ syscalls = EmptyDict
    /\ functions \in { EmptyDict, 0 :> "main" }
    /\ functionsArgLabels = EmptyDict
    /\ functionsLocalLabels = EmptyDict
    /\ functionsLocalRangeLabels = EmptyDict
    /\ baseQ3FunctionRevHashes \in
          { EmptyDict, hash32BitSigned(DecStr(843)) :> <<"G_Printf">> }
    /\ symbols = EmptyDict
    /\ symbolsRange = <<>>
    /\ constants = EmptyDict
    /\ AnalysisStart
    /\ DisassemblyIdle
    /\ Constructed

NextPrint ==
    Step \/ Finish \/ DisBegin \/ DisStep \/ DisEnd \/ DataDump \/ LitDump \/ HashDump

SpecPrint == InitPrint /\ [][NextPrint]_vars

-----------------------------------------------------------------------------
(* The print calls change nothing they read *)

\* the image buffers, the annotation maps and the analysis maps
ImageAndMaps ==
    <<codeBytes, codeData, dataData, litData, storeVars, commentStore, mapVars>>

\* the calls that can be made on the constructed object
PrintCalls == {"code", "data", "lit", "hashes"}

\* C21: once the analysis is over (a print call is being made or can be made),
\* no step changes the image buffers, an annotation map or an analysis map,
\* and a print call that returns after an earlier call of the same operation
\* has returned, whatever was called in between, has written the same listing.
C21_PrintsChangeNothing ==
    [][/\ phase \in {"done", "disassembly"} => UNCHANGED ImageAndMaps
       /\ \A op \in PrintCalls :
             (op \in dumps.ran /\ op \in dumps'.ran) => dumps'[op] = dumps[op]]_vars

\* every operation has returned, the code listing twice with the dumps in
\* between; the listing has a line of LIT, and the table of hashes has two
\* rows, one with a name of the base table
C21_Witness ==
    /\ phase = "disassembly"
    /\ count = instructionCount - 1
    /\ dumps.ran = PrintCalls
    /\ Len(dumps.code.comments) = instructionCount
    /\ comments = dumps.code.comments
    /\ above = dumps.code.above
    /\ \E i \in DOMAIN above : above[i].kind = "lit"
    /\ Len(dumps.hashes) = 2
    /\ dumps.hashes[1].names = <<"G_Printf">>
    /\ Len(dumps.data) = 2
    /\ Len(dumps.lit) = 1

-----------------------------------------------------------------------------
(* The read handle on the image file *)

\* self._file is bound to the handle that line 184 opens; no statement of
\* the class closes it or binds the attribute again, and read_int, read and
\* seek only read and move the position: the handle is open for as long as
\* the attribute exists
HandleOpen == "_file" \in attrs

\* CODE, DATA and LIT have been read into their buffers
SegmentsRead == SegmentAttrs \subseteq attrs

\* C22: once __init__ has read the three segments, the handle is released
\* before compute_function_info begins: in no state is the analysis running
\* (or over) with the handle still open.
C22_HandleReleasedBeforeAnalysis ==
    (SegmentsRead /\ phase \in {"analysis", "done", "error"}) => ~HandleOpen

-----------------------------------------------------------------------------
(* The callers named in the header of a function *)

\* longest code segment with calls before and after the first enter
MaxCallers == 5

\* a call of the function at index 2, from before the first enter or from a
\* function
CallerInstrs == { Ins("enter", 16), Ins("const", 2), Ins("call", None), Ins("leave", 16) }

InitCallers ==
    /\ codeData \in CodeSegments(CallerInstrs, MaxCallers)
    /\ instructionCount = Len(codeData)
    /\ dataSegLength = 0
    /\ litSegLength = 0
    /\ NoSegments
    /\ AnalysisStart
    /\ NoAnnotations
    /\ DisassemblyIdle
    /\ Constructed

SpecCallers == InitCallers /\ [][NextDis]_vars

\* every caller stored in call_points
Callers == UNION { { callPoints[K][k] : k \in DOMAIN callPoints[K] } : K \in DOMAIN callPoints }

\* the analysis is over: print_code_disassembly can be called, is running,
\* or has failed
Analysed == phase \in {"done", "disassembly"} \/ (phase = "error" /\ count >= 0)

\* the disassembly has just gone through the enter of a function some call
\* names as its target
AtCalledEnter ==
    /\ phase \in {"disassembly", "error"}
    /\ count >= 0
    /\ IsAt(count, "enter")
    /\ count \in DOMAIN callPoints

\* C23: after the analysis every caller stored in call_points, the
\* pseudo-function -1 included, is a key of function_hashes, function_sizes
\* and function_max_args_called, and the disassembly of the enter of a called
\* function, which looks up function_hashes[caller] for every caller that has
\* no name, does not fail.
C23_CallersAreKeys ==
    /\ Analysed =>
          Callers \subseteq (DOMAIN functionHashes \cap DOMAIN functionSizes
                                \cap DOMAIN functionMaxArgsCalled)
    /\ AtCalledEnter => phase # "error"

\* the disassembly has gone through the enter at index 2, which is called
\* from before the first enter and from the function itself
C23_Witness ==
    /\ AtCalledEnter
    /\ count = 2
    /\ callPoints[2] = <<-1, 2>>
    /\ functions = EmptyDict
    /\ -1 \in DOMAIN functionHashes

====
